---- MODULE Spec2Model ----
(***************************************************************************)
(* Community Energy Calculator: the calculation engine of                  *)
(* streamlit_app/calculations.py as a state machine, with the dashboard    *)
(* pages that drive it (app.py, pages/1_Calculator.py, 2_Energy_View.py)   *)
(* and two scripts (tariff migration, territory download).                 *)
(*                                                                         *)
(* Numbers.  The engine computes in floating point.  Here every real       *)
(* quantity is a fixed-point integer:                                      *)
(*   - fractions, rates and multipliers: units of 1/SCALE (0.40 is 4000);  *)
(*   - power: whole MW; energy: whole MWh; annual money: whole dollars;    *)
(*   - monthly bills and per-customer monthly impacts: 1/SCALE dollars.    *)
(* A product or quotient that is not a whole number of units is rounded    *)
(* towards minus infinity (MulF, DivF), where the floating-point code      *)
(* rounds to the nearest double.  Division by zero is the Python           *)
(* ZeroDivisionError: the operators return a record with raised = TRUE.    *)
(***************************************************************************)
EXTENDS Integers, Sequences, FiniteSets, TLC

\* One unit of a fraction is 1/SCALE.
SCALE == 100 * 100

\* ------------------------------------------------------------------------
\* Bounds of the model
\* ------------------------------------------------------------------------
\* Longest projection horizon a caller asks for.
MaxYears == 4
\* Longest horizon in the two-session specification.
MaxYearsConc == 2
\* Largest years_online passed to a direct allocation call.
MaxYearsOnline == 6
\* Most widgets a user touches in one dashboard session.
MaxInteractions == 4
\* Number of where clauses the download script pages through (7 in the code).
MaxBatches == 3
\* Most full pages the feature service holds for one where clause.
MaxPages == 2

\* ------------------------------------------------------------------------
\* Fixed-point arithmetic
\* ------------------------------------------------------------------------
Max(a, b) == IF a >= b THEN a ELSE b
Min(a, b) == IF a <= b THEN a ELSE b

\* floor(a * f / SCALE) without forming a * f.
MulF(a, f) == (a \div SCALE) * f + ((a % SCALE) * f) \div SCALE

RECURSIVE LongDiv(_, _, _)
\* <<floor(a * 10^k / b), remainder>> for b > 0, by long division.
LongDiv(a, b, k) ==
    IF k = 0 THEN <<a \div b, a % b>>
    ELSE LET p == LongDiv(a, b, k - 1)
         IN  <<p[1] * 10 + (p[2] * 10) \div b, (p[2] * 10) % b>>

\* floor(a * SCALE / b) for b # 0: the quotient a / b as a fraction.
DivF(a, b) == IF b > 0 THEN LongDiv(a, b, 4)[1] ELSE LongDiv(0 - a, 0 - b, 4)[1]

RECURSIVE Pow(_, _)
\* base ** n for a fixed-point base and an integer n.
Pow(base, n) ==
    IF n = 0 THEN SCALE
    ELSE IF n < 0 THEN DivF(SCALE, Pow(base, 0 - n))
    ELSE MulF(Pow(base, n - 1), base)

RECURSIVE SumSeq(_)
SumSeq(q) == IF q = <<>> THEN 0 ELSE Head(q) + SumSeq(Tail(q))

\* ------------------------------------------------------------------------
\* Constant tables (module-level dicts of calculations.py)
\* ------------------------------------------------------------------------
DEFAULT_UTILITY ==
    [residential_customers |-> 560000,
     commercial_customers |-> 85000,
     industrial_customers |-> 5000,
     avg_monthly_bill |-> 130 * SCALE,
     pre_dc_system_energy_gwh |-> 20000,
     residential_energy_share |-> 3500,
     system_peak_mw |-> 4000,
     base_residential_allocation |-> 4000,
     market_type |-> "regulated",
     has_capacity_market |-> FALSE,
     capacity_price_2024 |-> 0,
     capacity_cost_pass_through |-> 4000]

DEFAULT_DATA_CENTER ==
    [capacity_mw |-> 1000,
     firm_load_factor |-> 8000,
     firm_peak_coincidence |-> 10000,
     flex_load_factor |-> 9500,
     flex_peak_coincidence |-> 7500,
     onsite_generation_mw |-> 200]

INFRASTRUCTURE_COSTS ==
    [transmission_cost_per_mw |-> 350000,
     distribution_cost_per_mw |-> 150000,
     capacity_cost_per_mw_year |-> 150000,
     annual_baseline_upgrade_pct |-> 150]

DC_RATE_STRUCTURE ==
    [coincident_peak_charge_per_mw_month |-> 5430,
     non_coincident_peak_charge_per_mw_month |-> 3620,
     demand_charge_per_mw_month |-> 9050,
     energy_margin_per_mwh |-> 48800,
     ercot_4cp_transmission_rate |-> 55000]

TIME_PARAMS ==
    [base_year |-> 2025,
     general_inflation |-> 250,
     projection_years |-> 10]

\* The tables as the interpreter holds them after import.
Tables0 ==
    [INFRASTRUCTURE_COSTS |-> INFRASTRUCTURE_COSTS,
     DC_RATE_STRUCTURE |-> DC_RATE_STRUCTURE,
     TIME_PARAMS |-> TIME_PARAMS,
     DEFAULT_UTILITY |-> DEFAULT_UTILITY,
     DEFAULT_DATA_CENTER |-> DEFAULT_DATA_CENTER]

VARIABLES
    tables,        \* the module-level dicts (mutable objects in Python)
    pc,            \* per session: "idle", "called", "loop", "returned", "raised"
    fn,            \* per session: the core function the caller invoked
    utility,       \* per session: the utility dict passed in
    datacenter,    \* per session: the datacenter dict passed in
    years,         \* per session: the years argument
    args,          \* per session: the scalar arguments of the call
    trajs,         \* per session: the trajectories dict passed to the summary
    scenario,      \* per session: the generator whose loop is running
    year,          \* per session: loop variable of the running generator
    baseline,      \* per session: local 'baseline' of the running generator
    years_list,    \* per session: local 'years_list'
    monthly_bills, \* per session: local 'monthly_bills'
    done,          \* per session: trajectories already produced by generate_all
    ret,           \* per session: the value returned by the call
    prev           \* per session: the previous completed call and its result

\* The dashboard (app.py and pages/1_Calculator.py) of one browser session.
VARIABLES
    session_state, \* st.session_state: utility, datacenter, projection_years
    page,          \* the page whose script the session runs
    section,       \* the Calculator's "Configuration" radio
    run,           \* "waiting", "rerun" (st.rerun pending), "engine", "error"
    engine_args,   \* the arguments of the engine calls of the last script run
    interactions   \* the number of widgets the user has touched so far

\* The page and script functions outside the engine, and the run of
\* scripts/download_hifld_territories.py.
VARIABLES
    script_call,   \* the last call of such a function: fn, args, ret
    download_pc,   \* main(): "start", "paging", "processing", "done"
    batch_idx,     \* main(): index of the where clause being paged
    offset,        \* main(): resultOffset of the next query
    all_features,  \* main(): the pages of features collected so far
    requests       \* the queries made so far and what each one gave

enginevars == <<tables, pc, fn, utility, datacenter, years, args, trajs,
                scenario, year, baseline, years_list, monthly_bills, done,
                ret, prev>>

pagevars == <<session_state, page, section, run, engine_args, interactions>>

scriptvars == <<script_call, download_pc, batch_idx, offset, all_features,
                requests>>

downloadvars == <<download_pc, batch_idx, offset, all_features, requests>>

vars == <<tables, pc, fn, utility, datacenter, years, args, trajs, scenario,
          year, baseline, years_list, monthly_bills, done, ret, prev,
          session_state, page, section, run, engine_args, interactions,
          script_call, download_pc, batch_idx, offset, all_features,
          requests>>

\* ------------------------------------------------------------------------
\* RESIDENTIAL ALLOCATION MODEL
\* ------------------------------------------------------------------------
\* The value a call has when Python raised instead of returning.
Raised(exc) == [raised |-> TRUE, exception |-> exc]

\* Variant: the clamp without its lower bound.
ClampAllocation_NoFloor(adjusted_allocation) == Min(5000, adjusted_allocation)

\* The final clamp of the allocation fraction to [0.15, 0.50].
ClampAllocation(adjusted_allocation) ==
    Max(1500, Min(5000, adjusted_allocation))

\* Variant: the base allocation is market-adjusted inside the allocation
\* model.
BaseAllocation_MarketAdjusted(u) ==
    IF u.market_type = "ercot"
    THEN MulF(u.base_residential_allocation, 7000)
    ELSE u.base_residential_allocation

\* base_allocation (line 143).
BaseAllocation(u) == u.base_residential_allocation

\* Variant: the customer total without the + 1.
TotalCustomers_NoPlusOne(u) ==
    u.residential_customers + u.commercial_customers + u.industrial_customers

\* total_customers (lines 129-131).
TotalCustomers(u) ==
    u.residential_customers + u.commercial_customers
    + u.industrial_customers + 1

\* Variant: the ramp-in of the data center's load is not capped at 1.0.
PhaseInFactor_Uncapped(years_online) == DivF(years_online, 3)

\* phase_in_factor (line 110).
PhaseInFactor(years_online) == Min(SCALE, DivF(years_online, 3))

\* Variant: the regulatory lag is not capped at 1.0.
RegulatoryLagFactor_Uncapped(years_online) == DivF(years_online, 5)

\* regulatory_lag_factor (line 142).
RegulatoryLagFactor(years_online) == Min(SCALE, DivF(years_online, 5))

\* adjusted_allocation before the clamp (lines 144-145).
AdjustedAllocation(base_allocation, weighted_allocation, years_online) ==
    MulF(base_allocation, SCALE - RegulatoryLagFactor(years_online))
    + MulF(weighted_allocation, RegulatoryLagFactor(years_online))

\* A dict passed without the market keys reads as the .get defaults:
\* market_type 'regulated', has_capacity_market and capacity_price_2024
\* falsy (FALSE, 0), capacity_cost_pass_through 0.40.
calculate_residential_allocation(u, dc_capacity_mw, dc_load_factor, dc_peak_coincidence, years_online) ==
    LET pre_dc_system_energy_mwh == u.pre_dc_system_energy_gwh * 1000
        residential_energy_mwh ==
            MulF(pre_dc_system_energy_mwh, u.residential_energy_share)
        dc_annual_energy_mwh == MulF(dc_capacity_mw, dc_load_factor) * 8760
        phase_in_factor == PhaseInFactor(years_online)
        post_dc_system_energy_mwh ==
            pre_dc_system_energy_mwh + MulF(dc_annual_energy_mwh, phase_in_factor)
        pre_dc_peak_mw == u.system_peak_mw
        residential_peak_share == 4500
        residential_peak_mw == MulF(pre_dc_peak_mw, residential_peak_share)
        dc_peak_contribution ==
            MulF(MulF(dc_capacity_mw, dc_peak_coincidence), phase_in_factor)
        post_dc_peak_mw == pre_dc_peak_mw + dc_peak_contribution
        total_customers == TotalCustomers(u)
    IN  IF post_dc_system_energy_mwh = 0 \/ post_dc_peak_mw = 0
           \/ total_customers = 0
        THEN Raised("ZeroDivisionError")
        ELSE
        LET residential_volumetric_share ==
                DivF(residential_energy_mwh, post_dc_system_energy_mwh)
            residential_demand_share == DivF(residential_peak_mw, post_dc_peak_mw)
            residential_customer_share ==
                DivF(u.residential_customers, total_customers)
            weighted_allocation ==
                MulF(residential_volumetric_share, 4000)
                + MulF(residential_demand_share, 4000)
                + MulF(residential_customer_share, 2000)
            base_allocation == BaseAllocation(u)
            adjusted_allocation ==
                AdjustedAllocation(base_allocation, weighted_allocation,
                                   years_online)
        IN  [raised |-> FALSE,
             allocation |-> ClampAllocation(adjusted_allocation),
             volumetric_share |-> residential_volumetric_share,
             demand_share |-> residential_demand_share,
             customer_share |-> residential_customer_share]

\* ------------------------------------------------------------------------
\* CORE ECONOMIC MODEL
\* ------------------------------------------------------------------------
\* effective_capacity_mw = None is the argument left at its default; the
\* caller then passes dc_capacity_mw (lines 176-177).
calculate_dc_revenue_offset(dc_capacity_mw, load_factor, peak_coincidence, effective_capacity_mw) ==
    LET RS == tables.DC_RATE_STRUCTURE
        coincident_peak_mw == MulF(dc_capacity_mw, peak_coincidence)
        annual_cp_demand_revenue ==
            coincident_peak_mw * RS.coincident_peak_charge_per_mw_month * 12
        ncp_peak_mw == effective_capacity_mw
        annual_ncp_demand_revenue ==
            ncp_peak_mw * RS.non_coincident_peak_charge_per_mw_month * 12
        annual_demand_revenue == annual_cp_demand_revenue + annual_ncp_demand_revenue
        annual_mwh == MulF(effective_capacity_mw, load_factor) * 8760
        annual_energy_margin == MulF(annual_mwh, RS.energy_margin_per_mwh)
    IN  [cp_demand_revenue |-> annual_cp_demand_revenue,
         ncp_demand_revenue |-> annual_ncp_demand_revenue,
         demand_revenue |-> annual_demand_revenue,
         energy_margin |-> annual_energy_margin,
         per_year |-> annual_demand_revenue + annual_energy_margin]

\* Variant: the credit enters the capacity cost with the wrong sign.
CapacityCredit_Added(u, dc_capacity_mw, peak_coincidence, include_capacity_credit, onsite_gen_mw, base_capacity_cost) ==
    IF include_capacity_credit /\ peak_coincidence < SCALE
    THEN 0 - (MulF(MulF(dc_capacity_mw, SCALE - peak_coincidence)
                   * base_capacity_cost,
                   IF u.has_capacity_market THEN 9000 ELSE 8000)
              + MulF(onsite_gen_mw * base_capacity_cost, 9500))
    ELSE 0

\* Variant: the credit is granted whenever it is requested, also to a
\* data center that does not curtail.
CapacityCredit_Unconditional(u, dc_capacity_mw, peak_coincidence, include_capacity_credit, onsite_gen_mw, base_capacity_cost) ==
    IF include_capacity_credit
    THEN MulF(MulF(dc_capacity_mw, SCALE - peak_coincidence) * base_capacity_cost,
              IF u.has_capacity_market THEN 9000 ELSE 8000)
         + MulF(onsite_gen_mw * base_capacity_cost, 9500)
    ELSE 0

\* Variant: the capacity-market blend is tested first and wins over the
\* ERCOT override.
BaseCapacityCost_MarketFirst(u) ==
    IF u.has_capacity_market /\ u.capacity_price_2024 # 0
    THEN MulF(tables.INFRASTRUCTURE_COSTS.capacity_cost_per_mw_year, 5000)
         + MulF(MulF(u.capacity_price_2024 * 365,
                     u.capacity_cost_pass_through), 5000)
    ELSE IF u.market_type = "ercot"
    THEN MulF(tables.INFRASTRUCTURE_COSTS.capacity_cost_per_mw_year, 5000)
    ELSE tables.INFRASTRUCTURE_COSTS.capacity_cost_per_mw_year

\* base_capacity_cost after the market-specific overrides (lines 252-262).
BaseCapacityCost(u) ==
    IF u.market_type = "ercot"
    THEN MulF(tables.INFRASTRUCTURE_COSTS.capacity_cost_per_mw_year, 5000)
    ELSE IF u.has_capacity_market /\ u.capacity_price_2024 # 0
    THEN MulF(tables.INFRASTRUCTURE_COSTS.capacity_cost_per_mw_year, 5000)
         + MulF(MulF(u.capacity_price_2024 * 365,
                     u.capacity_cost_pass_through), 5000)
    ELSE tables.INFRASTRUCTURE_COSTS.capacity_cost_per_mw_year

\* The capacity credit of a flexible data center (lines 281-288).
CapacityCredit(u, dc_capacity_mw, peak_coincidence, include_capacity_credit, onsite_gen_mw, base_capacity_cost) ==
    IF include_capacity_credit /\ peak_coincidence < SCALE
    THEN LET curtailable_mw == MulF(dc_capacity_mw, SCALE - peak_coincidence)
             credit_multiplier == IF u.has_capacity_market THEN 9000 ELSE 8000
             dr_credit == MulF(curtailable_mw * base_capacity_cost, credit_multiplier)
             gen_credit == MulF(onsite_gen_mw * base_capacity_cost, 9500)
         IN  dr_credit + gen_credit
    ELSE 0

\* Variant: the price multiplier is keyed on the market type 'pjm' instead
\* of the capacity-market flag.
MarketAdjustedAllocation_ByType(u, residential_allocation) ==
    IF u.market_type = "ercot"
    THEN MulF(residential_allocation, 7000)
    ELSE IF u.market_type = "pjm" /\ u.capacity_price_2024 > 100
    THEN MulF(residential_allocation,
              Min(11500, SCALE + DivF(u.capacity_price_2024 - 100, 1000)))
    ELSE residential_allocation

\* Variant: the price multiplier without its cap of 1.15.
MarketAdjustedAllocation_Uncapped(u, residential_allocation) ==
    IF u.market_type = "ercot"
    THEN MulF(residential_allocation, 7000)
    ELSE IF u.has_capacity_market /\ u.capacity_price_2024 > 100
    THEN MulF(residential_allocation,
              SCALE + DivF(u.capacity_price_2024 - 100, 1000))
    ELSE residential_allocation

\* The market-adjusted residential allocation (lines 304-310).
MarketAdjustedAllocation(u, residential_allocation) ==
    IF u.market_type = "ercot"
    THEN MulF(residential_allocation, 7000)
    ELSE IF u.has_capacity_market /\ u.capacity_price_2024 > 100
    THEN MulF(residential_allocation,
              Min(11500, SCALE + DivF(u.capacity_price_2024 - 100, 1000)))
    ELSE residential_allocation

\* Variant: a net credit is not passed on, the net impact is floored at 0.
NetAnnualImpact_Floored(gross_annual_infra_cost, revenue_offset) ==
    Max(0, gross_annual_infra_cost - revenue_offset)

\* net_annual_impact (line 299).
NetAnnualImpact(gross_annual_infra_cost, revenue_offset) ==
    gross_annual_infra_cost - revenue_offset

\* Variant: the effective peak is costed as it is, also when negative.
CostedPeak_Unclamped(effective_peak_mw) == effective_peak_mw

\* max(0, effective_peak_mw): the peak the infrastructure is costed on
\* (lines 234, 237, 242, 245, 276).
CostedPeak(effective_peak_mw) == Max(0, effective_peak_mw)

\* annualized_transmission_cost (lines 229-243).
AnnualizedTransmissionCost(u, effective_peak_mw) ==
    IF u.market_type = "ercot"
    THEN MulF(CostedPeak(effective_peak_mw) * 1000,
              tables.DC_RATE_STRUCTURE.ercot_4cp_transmission_rate) * 12
         + MulF(CostedPeak(effective_peak_mw)
                * tables.INFRASTRUCTURE_COSTS.transmission_cost_per_mw,
                3000) \div 20
    ELSE (CostedPeak(effective_peak_mw)
          * tables.INFRASTRUCTURE_COSTS.transmission_cost_per_mw) \div 20

\* annualized_distribution_cost (lines 245-246).
AnnualizedDistributionCost(effective_peak_mw) ==
    (CostedPeak(effective_peak_mw)
     * tables.INFRASTRUCTURE_COSTS.distribution_cost_per_mw) \div 20

\* capacity_cost_or_credit before the credit is subtracted (lines 274-276).
PreCreditCapacityCost(u, effective_peak_mw) ==
    CostedPeak(effective_peak_mw)
    * Max(0, BaseCapacityCost(u)
             - tables.DC_RATE_STRUCTURE.coincident_peak_charge_per_mw_month * 12)

\* Variant: a zero customer count is guarded and yields an impact of 0.
PerCustomerMonthly_Guarded(residential_impact, residential_customers) ==
    IF residential_customers = 0
    THEN [raised |-> FALSE, value |-> 0]
    ELSE [raised |-> FALSE,
          value |-> DivF(residential_impact, residential_customers) \div 12]

\* per_customer_monthly (line 313): the division by a zero count raises.
PerCustomerMonthly(residential_impact, residential_customers) ==
    IF residential_customers = 0
    THEN Raised("ZeroDivisionError")
    ELSE [raised |-> FALSE,
          value |-> DivF(residential_impact, residential_customers) \div 12]

calculate_net_residential_impact(dc_capacity_mw, load_factor, peak_coincidence, residential_customers, residential_allocation, include_capacity_credit, onsite_gen_mw, u) ==
    LET is_flexible == peak_coincidence < SCALE
        effective_peak_mw == MulF(dc_capacity_mw, peak_coincidence) - onsite_gen_mw
        market_type == u.market_type
        annualized_transmission_cost ==
            AnnualizedTransmissionCost(u, effective_peak_mw)
        annualized_distribution_cost ==
            AnnualizedDistributionCost(effective_peak_mw)
        annualized_infra_cost ==
            annualized_transmission_cost + annualized_distribution_cost
        base_capacity_cost == BaseCapacityCost(u)
        dc_revenue == calculate_dc_revenue_offset(
                          dc_capacity_mw, load_factor, peak_coincidence,
                          dc_capacity_mw)
        capacity_credit ==
            CapacityCredit(u, dc_capacity_mw, peak_coincidence,
                           include_capacity_credit, onsite_gen_mw,
                           base_capacity_cost)
        capacity_cost_or_credit ==
            PreCreditCapacityCost(u, effective_peak_mw) - capacity_credit
        gross_annual_infra_cost == annualized_infra_cost + capacity_cost_or_credit
        energy_margin_flow_through == IF market_type = "ercot" THEN 9000 ELSE 8500
        ncp_demand_benefit == MulF(dc_revenue.ncp_demand_revenue, 2000)
        revenue_offset ==
            MulF(dc_revenue.energy_margin, energy_margin_flow_through)
            + ncp_demand_benefit
        net_annual_impact ==
            NetAnnualImpact(gross_annual_infra_cost, revenue_offset)
        adjusted_allocation == MarketAdjustedAllocation(u, residential_allocation)
        residential_impact == MulF(net_annual_impact, adjusted_allocation)
        per_customer_monthly ==
            PerCustomerMonthly(residential_impact, residential_customers)
    IN  IF per_customer_monthly.raised
        THEN per_customer_monthly
        ELSE [raised |-> FALSE,
              per_customer_monthly |-> per_customer_monthly.value,
              gross_cost |-> gross_annual_infra_cost,
              revenue_offset |-> revenue_offset,
              net_impact |-> net_annual_impact,
              market_type |-> market_type,
              adjusted_allocation |-> adjusted_allocation,
              capacity_credit |-> capacity_credit,
              is_flexible |-> is_flexible]

\* ------------------------------------------------------------------------
\* TRAJECTORY CALCULATIONS
\* ------------------------------------------------------------------------
\* Variant: the grid-modernisation term is left out of the baseline rate.
baseline_increase_rate_NoModernization ==
    tables.TIME_PARAMS.general_inflation
    + tables.INFRASTRUCTURE_COSTS.annual_baseline_upgrade_pct

\* The default of the 'years' parameter of the four trajectory generators.
DefaultYears == 10

baseline_increase_rate ==
    tables.TIME_PARAMS.general_inflation
    + tables.INFRASTRUCTURE_COSTS.annual_baseline_upgrade_pct
    + 50

\* Variant: the exponent is missing, every later year gets one increase.
BaselineBill_NoExponent(u, y) ==
    IF y = 0 THEN u.avg_monthly_bill
    ELSE MulF(u.avg_monthly_bill, SCALE + baseline_increase_rate)

\* The bill the baseline loop appends for one year.
BaselineBill(u, y) ==
    IF y = 0 THEN u.avg_monthly_bill
    ELSE MulF(u.avg_monthly_bill, Pow(SCALE + baseline_increase_rate, y))

\* Variant: the first projected year is base_year + 1.
YearsList_FromOne(n) == [i \in 1..(n + 1) |-> tables.TIME_PARAMS.base_year + i]

\* years_list after the loop over range(years + 1).
YearsList(n) == [i \in 1..(n + 1) |-> tables.TIME_PARAMS.base_year + (i - 1)]

calculate_baseline_trajectory(u, n) ==
    [raised |-> FALSE,
     years |-> YearsList(n),
     monthly_bills |-> [i \in 1..(n + 1) |-> BaselineBill(u, i - 1)],
     scenario |-> "baseline"]

\* Variant: no partial first year.
PhaseIn_Full(y) == SCALE

\* 0.5 in the first year with an impact, 1.0 afterwards.
PhaseIn(y) == IF y = 2 THEN 5000 ELSE SCALE

\* Years the data center has been online in projection year y.
YearsOnline(y) == y - 2

\* Variant: credits escalate with full inflation, like costs.
Escalate_NoDampening(dc_impact, years_online, dampening) ==
    MulF(dc_impact,
         Pow(SCALE + tables.TIME_PARAMS.general_inflation, years_online))

\* "Escalate with inflation": costs grow with inflation, credits with a
\* dampened rate.
Escalate(dc_impact, years_online, dampening) ==
    IF dc_impact > 0
    THEN MulF(dc_impact,
              Pow(SCALE + tables.TIME_PARAMS.general_inflation, years_online))
    ELSE MulF(dc_impact,
              Pow(SCALE + MulF(tables.TIME_PARAMS.general_inflation, dampening),
                  years_online))

\* The else branch of the loop of calculate_unoptimized_trajectory: the
\* escalated data-center impact of year y >= 2, or the exception raised.
unoptimized_impact(u, d, y) ==
    LET firm_lf == d.firm_load_factor
        firm_peak == d.firm_peak_coincidence
        phase_in == PhaseIn(y)
        years_online == YearsOnline(y)
        allocation_result == calculate_residential_allocation(
            u, d.capacity_mw, firm_lf, firm_peak, years_online)
        impact_result == calculate_net_residential_impact(
            d.capacity_mw, firm_lf, firm_peak, u.residential_customers,
            allocation_result.allocation, FALSE, 0, u)
    IN  IF allocation_result.raised THEN allocation_result
        ELSE IF impact_result.raised THEN impact_result
        ELSE [raised |-> FALSE,
              dc_impact |-> Escalate(MulF(impact_result.per_customer_monthly,
                                          phase_in),
                                     years_online, 8000)]

\* Variant: the construction period is one year instead of two.
unoptimized_bill_FromYear1(u, d, bl, y) ==
    IF y < 1 THEN [raised |-> FALSE, bill |-> bl.monthly_bills[y + 1]]
    ELSE LET r == unoptimized_impact(u, d, y)
         IN  IF r.raised THEN r
             ELSE [raised |-> FALSE, bill |-> bl.monthly_bills[y + 1] + r.dc_impact]

\* One iteration of the loop of calculate_unoptimized_trajectory: the bill
\* appended for year y, or the exception that ends the call.
unoptimized_bill(u, d, bl, y) ==
    IF y < 2 THEN [raised |-> FALSE, bill |-> bl.monthly_bills[y + 1]]
    ELSE LET r == unoptimized_impact(u, d, y)
         IN  IF r.raised THEN r
             ELSE [raised |-> FALSE, bill |-> bl.monthly_bills[y + 1] + r.dc_impact]

\* The else branch of the loop of calculate_flexible_trajectory.
flexible_impact(u, d, y) ==
    LET flex_lf == d.flex_load_factor
        flex_peak == d.flex_peak_coincidence
        phase_in == PhaseIn(y)
        years_online == YearsOnline(y)
        allocation_result == calculate_residential_allocation(
            u, d.capacity_mw, flex_lf, flex_peak, years_online)
        impact_result == calculate_net_residential_impact(
            d.capacity_mw, flex_lf, flex_peak, u.residential_customers,
            allocation_result.allocation, TRUE, 0, u)
    IN  IF allocation_result.raised THEN allocation_result
        ELSE IF impact_result.raised THEN impact_result
        ELSE [raised |-> FALSE,
              dc_impact |-> Escalate(MulF(impact_result.per_customer_monthly,
                                          phase_in),
                                     years_online, 9000)]

\* One iteration of the loop of calculate_flexible_trajectory: the bill
\* appended for year y, or the exception that ends the call.
flexible_bill(u, d, bl, y) ==
    IF y < 2 THEN [raised |-> FALSE, bill |-> bl.monthly_bills[y + 1]]
    ELSE LET r == flexible_impact(u, d, y)
         IN  IF r.raised THEN r
             ELSE [raised |-> FALSE, bill |-> bl.monthly_bills[y + 1] + r.dc_impact]

\* Variant: an onsite generation of 0 is taken as missing and replaced by
\* the default of 20% of the capacity.
dispatchable_impact_DefaultOnsite(u, d, y) ==
    IF d.capacity_mw = 0 THEN Raised("ZeroDivisionError")
    ELSE
    LET flex_lf == d.flex_load_factor
        flex_peak == d.flex_peak_coincidence
        onsite_gen == IF d.onsite_generation_mw = 0
                      THEN MulF(d.capacity_mw, 2000)
                      ELSE d.onsite_generation_mw
        effective_peak == Max(0, flex_peak - DivF(onsite_gen, d.capacity_mw))
        allocation_result == calculate_residential_allocation(
            u, d.capacity_mw, flex_lf, effective_peak, YearsOnline(y))
        impact_result == calculate_net_residential_impact(
            d.capacity_mw, flex_lf, flex_peak, u.residential_customers,
            allocation_result.allocation, TRUE, onsite_gen, u)
    IN  IF allocation_result.raised THEN allocation_result
        ELSE IF impact_result.raised THEN impact_result
        ELSE [raised |-> FALSE,
              dc_impact |-> Escalate(MulF(impact_result.per_customer_monthly,
                                          PhaseIn(y)),
                                     YearsOnline(y), 9500)]

\* The else branch of the loop of calculate_dispatchable_trajectory.
dispatchable_impact(u, d, y) ==
    IF d.capacity_mw = 0 THEN Raised("ZeroDivisionError")
    ELSE
    LET flex_lf == d.flex_load_factor
        flex_peak == d.flex_peak_coincidence
        onsite_gen == d.onsite_generation_mw
        phase_in == PhaseIn(y)
        years_online == YearsOnline(y)
        effective_peak == Max(0, flex_peak - DivF(onsite_gen, d.capacity_mw))
        allocation_result == calculate_residential_allocation(
            u, d.capacity_mw, flex_lf, effective_peak, years_online)
        impact_result == calculate_net_residential_impact(
            d.capacity_mw, flex_lf, flex_peak, u.residential_customers,
            allocation_result.allocation, TRUE, onsite_gen, u)
    IN  IF allocation_result.raised THEN allocation_result
        ELSE IF impact_result.raised THEN impact_result
        ELSE [raised |-> FALSE,
              dc_impact |-> Escalate(MulF(impact_result.per_customer_monthly,
                                          phase_in),
                                     years_online, 9500)]

\* Variant: the effective peak is computed before the year is tested.
dispatchable_bill_Eager(u, d, bl, y) ==
    IF d.capacity_mw = 0 THEN Raised("ZeroDivisionError")
    ELSE IF y < 2 THEN [raised |-> FALSE, bill |-> bl.monthly_bills[y + 1]]
    ELSE LET r == dispatchable_impact(u, d, y)
         IN  IF r.raised THEN r
             ELSE [raised |-> FALSE, bill |-> bl.monthly_bills[y + 1] + r.dc_impact]

\* One iteration of the loop of calculate_dispatchable_trajectory: the bill
\* appended for year y, or the exception that ends the call.
dispatchable_bill(u, d, bl, y) ==
    IF y < 2 THEN [raised |-> FALSE, bill |-> bl.monthly_bills[y + 1]]
    ELSE LET r == dispatchable_impact(u, d, y)
         IN  IF r.raised THEN r
             ELSE [raised |-> FALSE, bill |-> bl.monthly_bills[y + 1] + r.dc_impact]

\* The iteration of the generator named scen.
ScenarioBill(scen, u, d, bl, y) ==
    CASE scen = "unoptimized" -> unoptimized_bill(u, d, bl, y)
      [] scen = "flexible" -> flexible_bill(u, d, bl, y)
      [] scen = "dispatchable" -> dispatchable_bill(u, d, bl, y)

\* A generator run from its first statement to its return, with nothing
\* else running: the loop visits year 0..n in order and stops at the first
\* exception.
RunGenerator(scen, u, d, n) ==
    LET bl == calculate_baseline_trajectory(u, n)
        step == [i \in 1..(n + 1) |-> ScenarioBill(scen, u, d, bl, i - 1)]
    IN  IF \E i \in 1..(n + 1) : step[i].raised
        THEN Raised("ZeroDivisionError")
        ELSE [raised |-> FALSE,
              years |-> YearsList(n),
              monthly_bills |-> [i \in 1..(n + 1) |-> step[i].bill],
              scenario |-> scen]

calculate_unoptimized_trajectory(u, d, n) == RunGenerator("unoptimized", u, d, n)

calculate_flexible_trajectory(u, d, n) == RunGenerator("flexible", u, d, n)

calculate_dispatchable_trajectory(u, d, n) == RunGenerator("dispatchable", u, d, n)

\* ------------------------------------------------------------------------
\* SUMMARY STATISTICS
\* ------------------------------------------------------------------------
Scenarios == {"baseline", "unoptimized", "flexible", "dispatchable"}

DcScenarios == {"unoptimized", "flexible", "dispatchable"}

\* Variant: the sum starts at the first projected year, after year 0.
CumulativeCost_SkipYear0(bills) ==
    SumSeq([i \in 1..(Len(bills) - 1) |-> bills[i + 1] * 12])

\* sum(b * 12 for b in bills)
CumulativeCost(bills) == SumSeq([i \in 1..Len(bills) |-> bills[i] * 12])

\* Variant: final_idx = 0.
FinalBill_First(bills) == bills[1]

\* bills[final_idx] with final_idx = -1.
FinalBill(bills) == bills[Len(bills)]

\* monthly_bills[-1] of an empty list is an IndexError.
calculate_summary_stats(t, u) ==
    IF \E sc \in Scenarios : Len(t[sc].monthly_bills) = 0
    THEN Raised("IndexError")
    ELSE
    LET baseline_final == FinalBill(t["baseline"].monthly_bills)
        unoptimized_final == FinalBill(t["unoptimized"].monthly_bills)
        flexible_final == FinalBill(t["flexible"].monthly_bills)
        dispatchable_final == FinalBill(t["dispatchable"].monthly_bills)
    IN  [raised |-> FALSE,
         current_monthly_bill |-> u.avg_monthly_bill,
         final_year_bills |->
             [baseline |-> baseline_final,
              unoptimized |-> unoptimized_final,
              flexible |-> flexible_final,
              dispatchable |-> dispatchable_final],
         final_year_difference |->
             [unoptimized |-> unoptimized_final - baseline_final,
              flexible |-> flexible_final - baseline_final,
              dispatchable |-> dispatchable_final - baseline_final],
         savings_vs_unoptimized |->
             [flexible |-> unoptimized_final - flexible_final,
              dispatchable |-> unoptimized_final - dispatchable_final],
         cumulative_costs |->
             [sc \in Scenarios |-> CumulativeCost(t[sc].monthly_bills)]]

\* ------------------------------------------------------------------------
\* Callers and the values they pass
\* ------------------------------------------------------------------------
\* Dashboard sessions calling into the engine.
Sessions == {1, 2}

PJM_UTILITY ==
    [DEFAULT_UTILITY EXCEPT !.market_type = "pjm",
                            !.has_capacity_market = TRUE,
                            !.capacity_price_2024 = 270,
                            !.capacity_cost_pass_through = 5000,
                            !.base_residential_allocation = 3500]

MISO_UTILITY ==
    [DEFAULT_UTILITY EXCEPT !.market_type = "miso",
                            !.has_capacity_market = TRUE,
                            !.capacity_price_2024 = 30,
                            !.capacity_cost_pass_through = 3500,
                            !.base_residential_allocation = 3800]

ERCOT_UTILITY ==
    [DEFAULT_UTILITY EXCEPT !.market_type = "ercot",
                            !.capacity_cost_pass_through = 2500,
                            !.base_residential_allocation = 3000]

\* An ERCOT utility whose dict also carries capacity-market fields.
ERCOT_WITH_PRICE ==
    [ERCOT_UTILITY EXCEPT !.has_capacity_market = TRUE,
                          !.capacity_price_2024 = 270]

SPP_UTILITY == [DEFAULT_UTILITY EXCEPT !.market_type = "spp"]

\* A capacity market clearing at $150/MW-day, below the multiplier's cap.
MID_PRICE_UTILITY == [PJM_UTILITY EXCEPT !.capacity_price_2024 = 150]

\* A capacity market clearing at exactly $100/MW-day.
THRESHOLD_PRICE_UTILITY == [PJM_UTILITY EXCEPT !.capacity_price_2024 = 100]

\* A dict that carries a capacity price but no capacity market.
PRICE_WITHOUT_MARKET == [PJM_UTILITY EXCEPT !.has_capacity_market = FALSE]

\* A small system, on which a 1000 MW data center weighs heavily.
SMALL_UTILITY ==
    [DEFAULT_UTILITY EXCEPT !.residential_customers = 56000,
                            !.commercial_customers = 8500,
                            !.industrial_customers = 500,
                            !.pre_dc_system_energy_gwh = 2000,
                            !.system_peak_mw = 400]

NO_RESIDENTIAL == [DEFAULT_UTILITY EXCEPT !.residential_customers = 0]

ZERO_BILL == [DEFAULT_UTILITY EXCEPT !.avg_monthly_bill = 0]

\* An average bill of one cent.
ONE_CENT_BILL == [DEFAULT_UTILITY EXCEPT !.avg_monthly_bill = SCALE \div 100]

\* Utilities passed to the trajectory generators.
Utilities ==
    {DEFAULT_UTILITY, PJM_UTILITY, ERCOT_UTILITY, SMALL_UTILITY,
     NO_RESIDENTIAL, ZERO_BILL, ONE_CENT_BILL}

\* Utilities passed to a direct allocation call: also inconsistent ones.
AllocUtilities ==
    {DEFAULT_UTILITY, PJM_UTILITY, SMALL_UTILITY,
     [DEFAULT_UTILITY EXCEPT !.base_residential_allocation = 9000],
     [DEFAULT_UTILITY EXCEPT !.base_residential_allocation = 0 - 2000],
     [DEFAULT_UTILITY EXCEPT !.residential_energy_share = 15000],
     [DEFAULT_UTILITY EXCEPT !.pre_dc_system_energy_gwh = 0],
     [DEFAULT_UTILITY EXCEPT !.system_peak_mw = 0],
     [DEFAULT_UTILITY EXCEPT !.residential_customers = 0,
                             !.commercial_customers = 0,
                             !.industrial_customers = 0],
     [DEFAULT_UTILITY EXCEPT !.residential_customers = 0,
                             !.commercial_customers = 0 - 1,
                             !.industrial_customers = 0]}

\* Utilities passed to a direct net-impact call: one per market shape.
ImpactUtilities ==
    {DEFAULT_UTILITY, PJM_UTILITY, MISO_UTILITY, ERCOT_UTILITY,
     ERCOT_WITH_PRICE, SPP_UTILITY, MID_PRICE_UTILITY,
     THRESHOLD_PRICE_UTILITY, PRICE_WITHOUT_MARKET}

NO_DATA_CENTER == [DEFAULT_DATA_CENTER EXCEPT !.capacity_mw = 0,
                                             !.onsite_generation_mw = 0]

NO_ONSITE == [DEFAULT_DATA_CENTER EXCEPT !.onsite_generation_mw = 0]

\* A profile whose "flexible" mode draws less energy and more peak than
\* its firm mode; every field is within the profile's invariants.
INVERTED_PROFILE ==
    [capacity_mw |-> 500,
     firm_load_factor |-> 9500,
     firm_peak_coincidence |-> 5000,
     flex_load_factor |-> 5000,
     flex_peak_coincidence |-> 10000,
     onsite_generation_mw |-> 100]

DataCenters ==
    {DEFAULT_DATA_CENTER, NO_DATA_CENTER, NO_ONSITE, INVERTED_PROFILE}

LoadFactors == {5000, 8000, 9500}

PeakCoincidences == {5000, 7500, 10000}

Args0 ==
    [dc_capacity_mw |-> 0, load_factor |-> 0, peak_coincidence |-> 0,
     years_online |-> 0, residential_customers |-> 0,
     residential_allocation |-> 0, include_capacity_credit |-> FALSE,
     onsite_gen_mw |-> 0, effective_capacity_mw |-> 0,
     effective_capacity_is_none |-> TRUE, years_is_none |-> FALSE]

\* Arguments of a direct calculate_residential_allocation call.
AllocArgs ==
    {[Args0 EXCEPT !.dc_capacity_mw = c, !.load_factor = lf,
                   !.peak_coincidence = p, !.years_online = yo] :
        c \in {0, 1000, 0 - 5000}, lf \in {8000, 9500},
        p \in {0, 7500, 10000}, yo \in 0..MaxYearsOnline}

\* Arguments of a direct calculate_dc_revenue_offset call.
RevenueArgs ==
    {[Args0 EXCEPT !.dc_capacity_mw = c, !.load_factor = lf,
                   !.peak_coincidence = p, !.effective_capacity_mw = e[1],
                   !.effective_capacity_is_none = e[2]] :
        c \in {0, 1000}, lf \in LoadFactors, p \in PeakCoincidences,
        e \in {<<0, TRUE>>, <<0, FALSE>>, <<1000, FALSE>>, <<1200, FALSE>>}}

\* Arguments of a direct calculate_net_residential_impact call.
ImpactArgs ==
    {[Args0 EXCEPT !.dc_capacity_mw = c, !.load_factor = lf,
                   !.peak_coincidence = p, !.residential_customers = n,
                   !.residential_allocation = a,
                   !.include_capacity_credit = k, !.onsite_gen_mw = g] :
        c \in {0, 1000}, lf \in LoadFactors \ {5000}, p \in PeakCoincidences,
        n \in {0, 560000, 0 - 560000}, a \in {1500, 4000},
        k \in BOOLEAN, g \in {0, 200, 1000}}

\* A trajectory dict as the summary receives it.
Traj(bills, scen) ==
    [raised |-> FALSE,
     years |-> [i \in 1..Len(bills) |-> tables.TIME_PARAMS.base_year + (i - 1)],
     monthly_bills |-> bills,
     scenario |-> scen]

\* Bill lists of hand-built trajectories passed to the summary.
BillLists ==
    {<<>>, <<130 * SCALE>>, <<130 * SCALE, 136 * SCALE>>,
     <<130 * SCALE, 120 * SCALE, 125 * SCALE>>}

NoTrajs == [sc \in Scenarios |-> Traj(<<>>, sc)]

NoTraj == Traj(<<>>, "none")

NoRet == [raised |-> FALSE]

NoCall == [fn |-> "none"]

TrajectoryFns ==
    {"calculate_baseline_trajectory", "calculate_unoptimized_trajectory",
     "calculate_flexible_trajectory", "calculate_dispatchable_trajectory",
     "generate_all_trajectories"}

\* The generator a function name runs.
ScenarioOf(f) ==
    CASE f = "calculate_unoptimized_trajectory" -> "unoptimized"
      [] f = "calculate_flexible_trajectory" -> "flexible"
      [] f = "calculate_dispatchable_trajectory" -> "dispatchable"
      [] OTHER -> "none"

Init ==
    /\ tables = Tables0
    /\ pc = [s \in Sessions |-> "idle"]
    /\ fn = [s \in Sessions |-> "none"]
    /\ utility = [s \in Sessions |-> DEFAULT_UTILITY]
    /\ datacenter = [s \in Sessions |-> DEFAULT_DATA_CENTER]
    /\ years = [s \in Sessions |-> 0]
    /\ args = [s \in Sessions |-> Args0]
    /\ trajs = [s \in Sessions |-> NoTrajs]
    /\ scenario = [s \in Sessions |-> "none"]
    /\ year = [s \in Sessions |-> 0]
    /\ baseline = [s \in Sessions |-> NoTraj]
    /\ years_list = [s \in Sessions |-> <<>>]
    /\ monthly_bills = [s \in Sessions |-> <<>>]
    /\ done = [s \in Sessions |-> <<>>]
    /\ ret = [s \in Sessions |-> NoRet]
    /\ prev = [s \in Sessions |-> NoCall]
    /\ session_state = [utility |-> DEFAULT_UTILITY,
                        datacenter |-> DEFAULT_DATA_CENTER,
                        projection_years |-> TIME_PARAMS.projection_years]
    /\ page = "app"
    /\ section = "Your Utility"
    /\ run = "rerun"
    /\ engine_args = [invoked |-> FALSE]
    /\ interactions = 0
    /\ script_call = [fn |-> "none"]
    /\ download_pc = "start"
    /\ batch_idx = 0
    /\ offset = 0
    /\ all_features = <<>>
    /\ requests = <<>>

\* ------------------------------------------------------------------------
\* The caller's side of a call
\* ------------------------------------------------------------------------
\* The frame of session s is collected.
FreshLocals(s) ==
    /\ scenario' = [scenario EXCEPT ![s] = "none"]
    /\ year' = [year EXCEPT ![s] = 0]
    /\ baseline' = [baseline EXCEPT ![s] = NoTraj]
    /\ years_list' = [years_list EXCEPT ![s] = <<>>]
    /\ monthly_bills' = [monthly_bills EXCEPT ![s] = <<>>]
    /\ done' = [done EXCEPT ![s] = <<>>]

\* Session s calls function f with these arguments.
Call(s, f, u, d, n, a, t) ==
    /\ pc' = [pc EXCEPT ![s] = "called"]
    /\ fn' = [fn EXCEPT ![s] = f]
    /\ utility' = [utility EXCEPT ![s] = u]
    /\ datacenter' = [datacenter EXCEPT ![s] = d]
    /\ years' = [years EXCEPT ![s] = n]
    /\ args' = [args EXCEPT ![s] = a]
    /\ trajs' = [trajs EXCEPT ![s] = t]
    /\ ret' = [ret EXCEPT ![s] = NoRet]
    /\ UNCHANGED <<tables, scenario, year, baseline, years_list, monthly_bills,
                   done>>

\* The call of session s ends with value r (returned or raised).  What its
\* frame held stays in memory, unreachable, until the session is reset.
Finish(s, r) ==
    /\ pc' = [pc EXCEPT ![s] = IF r.raised THEN "raised" ELSE "returned"]
    /\ ret' = [ret EXCEPT ![s] = r]
    /\ UNCHANGED <<tables, fn, utility, datacenter, years, args, trajs, prev,
                   scenario, year, baseline, years_list, monthly_bills, done>>

RequestAllocation(s) ==
    /\ pc[s] = "idle"
    /\ \E u \in AllocUtilities, a \in AllocArgs :
          Call(s, "calculate_residential_allocation", u, DEFAULT_DATA_CENTER,
               0, a, NoTrajs)
    /\ UNCHANGED prev

RequestRevenueOffset(s) ==
    /\ pc[s] = "idle"
    /\ \E a \in RevenueArgs :
          Call(s, "calculate_dc_revenue_offset", DEFAULT_UTILITY,
               DEFAULT_DATA_CENTER, 0, a, NoTrajs)
    /\ UNCHANGED prev

RequestNetImpact(s) ==
    /\ pc[s] = "idle"
    /\ \E u \in ImpactUtilities, a \in ImpactArgs :
          Call(s, "calculate_net_residential_impact", u, DEFAULT_DATA_CENTER,
               0, a, NoTrajs)
    /\ UNCHANGED prev

\* A trajectory function called with utilities U, data centers D and
\* horizons 0..maxy, or without the years argument: a generator then runs
\* with its default, generate_all_trajectories receives years = None.
RequestTrajectory(s, U, D, maxy) ==
    /\ pc[s] = "idle"
    /\ \E f \in TrajectoryFns, u \in U, d \in D, n \in 0..maxy :
          \/ Call(s, f, u, d, n, Args0, NoTrajs)
          \/ /\ n = 0
             /\ u = DEFAULT_UTILITY
             /\ Call(s, f, u, d,
                     IF f = "generate_all_trajectories" THEN 0 ELSE DefaultYears,
                     [Args0 EXCEPT !.years_is_none = TRUE], NoTrajs)
    /\ UNCHANGED prev

\* The summary called on hand-built trajectories.
RequestSummary(s) ==
    /\ pc[s] = "idle"
    /\ \E u \in {DEFAULT_UTILITY, ZERO_BILL},
          b \in [Scenarios -> BillLists] :
          Call(s, "calculate_summary_stats", u, DEFAULT_DATA_CENTER, 0, Args0,
               [sc \in Scenarios |-> Traj(b[sc], sc)])
    /\ UNCHANGED prev

\* The dashboard's sequence: the summary of what generate_all_trajectories
\* returned.
Summarise(s) ==
    /\ pc[s] = "returned"
    /\ fn[s] = "generate_all_trajectories"
    /\ Call(s, "calculate_summary_stats", utility[s], datacenter[s], years[s],
            Args0, ret[s].trajectories)
    /\ prev' = [prev EXCEPT ![s] = NoCall]

\* The caller repeats its call with identical arguments and keeps the
\* first result for comparison.
Again(s) ==
    /\ pc[s] \in {"returned", "raised"}
    /\ prev[s] = NoCall
    /\ prev' = [prev EXCEPT ![s] =
                   [fn |-> fn[s], utility |-> utility[s],
                    datacenter |-> datacenter[s], args |-> args[s],
                    trajs |-> trajs[s], ret |-> ret[s]]]
    /\ Call(s, fn[s], utility[s], datacenter[s],
            IF args[s].years_is_none /\ fn[s] = "generate_all_trajectories"
            THEN 0 ELSE years[s],
            args[s], trajs[s])

\* The caller drops the result; nothing of the call remains.
Reset(s) ==
    /\ pc[s] \in {"returned", "raised"}
    /\ pc' = [pc EXCEPT ![s] = "idle"]
    /\ fn' = [fn EXCEPT ![s] = "none"]
    /\ utility' = [utility EXCEPT ![s] = DEFAULT_UTILITY]
    /\ datacenter' = [datacenter EXCEPT ![s] = DEFAULT_DATA_CENTER]
    /\ years' = [years EXCEPT ![s] = 0]
    /\ args' = [args EXCEPT ![s] = Args0]
    /\ trajs' = [trajs EXCEPT ![s] = NoTrajs]
    /\ ret' = [ret EXCEPT ![s] = NoRet]
    /\ prev' = [prev EXCEPT ![s] = NoCall]
    /\ FreshLocals(s)
    /\ UNCHANGED tables

\* ------------------------------------------------------------------------
\* The engine's functions as actions
\* ------------------------------------------------------------------------
Run_residential_allocation(s) ==
    /\ pc[s] = "called"
    /\ fn[s] = "calculate_residential_allocation"
    /\ Finish(s, calculate_residential_allocation(
                     utility[s], args[s].dc_capacity_mw, args[s].load_factor,
                     args[s].peak_coincidence, args[s].years_online))

Run_dc_revenue_offset(s) ==
    /\ pc[s] = "called"
    /\ fn[s] = "calculate_dc_revenue_offset"
    /\ Finish(s, [raised |-> FALSE] @@ calculate_dc_revenue_offset(
                     args[s].dc_capacity_mw, args[s].load_factor,
                     args[s].peak_coincidence,
                     IF args[s].effective_capacity_is_none
                     THEN args[s].dc_capacity_mw
                     ELSE args[s].effective_capacity_mw))

Run_net_residential_impact(s) ==
    /\ pc[s] = "called"
    /\ fn[s] = "calculate_net_residential_impact"
    /\ Finish(s, calculate_net_residential_impact(
                     args[s].dc_capacity_mw, args[s].load_factor,
                     args[s].peak_coincidence, args[s].residential_customers,
                     args[s].residential_allocation,
                     args[s].include_capacity_credit, args[s].onsite_gen_mw,
                     utility[s]))

Run_baseline_trajectory(s) ==
    /\ pc[s] = "called"
    /\ fn[s] = "calculate_baseline_trajectory"
    /\ Finish(s, calculate_baseline_trajectory(utility[s], years[s]))

Run_summary_stats(s) ==
    /\ pc[s] = "called"
    /\ fn[s] = "calculate_summary_stats"
    /\ Finish(s, calculate_summary_stats(trajs[s], utility[s]))

\* Variant: the two lists are created once and reused by every call.
EnterGenerator_StaleLists(s, scen, n) ==
    /\ pc' = [pc EXCEPT ![s] = "loop"]
    /\ scenario' = [scenario EXCEPT ![s] = scen]
    /\ year' = [year EXCEPT ![s] = 0]
    /\ baseline' = [baseline EXCEPT ![s] =
                       calculate_baseline_trajectory(utility[s], n)]
    /\ UNCHANGED <<years_list, monthly_bills>>

\* Entry of a data-center generator up to its loop: the nested baseline
\* call and the empty lists.
EnterGenerator(s, scen, n) ==
    /\ pc' = [pc EXCEPT ![s] = "loop"]
    /\ scenario' = [scenario EXCEPT ![s] = scen]
    /\ year' = [year EXCEPT ![s] = 0]
    /\ baseline' = [baseline EXCEPT ![s] =
                       calculate_baseline_trajectory(utility[s], n)]
    /\ years_list' = [years_list EXCEPT ![s] = <<>>]
    /\ monthly_bills' = [monthly_bills EXCEPT ![s] = <<>>]

Begin_generator(s) ==
    /\ pc[s] = "called"
    /\ ScenarioOf(fn[s]) \in DcScenarios
    /\ EnterGenerator(s, ScenarioOf(fn[s]), years[s])
    /\ UNCHANGED <<tables, fn, utility, datacenter, years, args, trajs, done,
                   ret, prev>>

\* generate_all_trajectories: the default horizon, the baseline entry of
\* the result dict, then the first data-center generator.
Begin_generate_all(s) ==
    /\ pc[s] = "called"
    /\ fn[s] = "generate_all_trajectories"
    /\ LET n == IF args[s].years_is_none
                THEN tables.TIME_PARAMS.projection_years
                ELSE years[s]
       IN  /\ years' = [years EXCEPT ![s] = n]
           /\ done' = [done EXCEPT ![s] =
                          "baseline" :> calculate_baseline_trajectory(utility[s], n)]
           /\ EnterGenerator(s, "unoptimized", n)
    /\ UNCHANGED <<tables, fn, utility, datacenter, args, trajs, ret, prev>>

\* Variant: monthly_bills is one module-level list shared by all callers.
LoopIteration_SharedList(s, r) ==
    IF r.raised
    THEN Finish(s, r)
    ELSE /\ years_list' = [years_list EXCEPT ![s] =
                Append(@, tables.TIME_PARAMS.base_year + year[s])]
         /\ monthly_bills' = [t \in Sessions |->
                IF t = s \/ pc[t] = "loop"
                THEN Append(monthly_bills[t], r.bill)
                ELSE monthly_bills[t]]
         /\ year' = [year EXCEPT ![s] = @ + 1]
         /\ UNCHANGED <<tables, pc, fn, utility, datacenter, years, args, trajs,
                        scenario, baseline, done, ret, prev>>

\* One loop iteration of the running generator: append the year and its
\* bill, or end the whole call with the exception.
LoopIteration(s, r) ==
    IF r.raised
    THEN Finish(s, r)
    ELSE /\ years_list' = [years_list EXCEPT ![s] =
                Append(@, tables.TIME_PARAMS.base_year + year[s])]
         /\ monthly_bills' = [monthly_bills EXCEPT ![s] = Append(@, r.bill)]
         /\ year' = [year EXCEPT ![s] = @ + 1]
         /\ UNCHANGED <<tables, pc, fn, utility, datacenter, years, args, trajs,
                        scenario, baseline, done, ret, prev>>

unoptimized_year(s) ==
    /\ pc[s] = "loop"
    /\ scenario[s] = "unoptimized"
    /\ year[s] <= years[s]
    /\ LoopIteration(s, unoptimized_bill(utility[s], datacenter[s],
                                         baseline[s], year[s]))

flexible_year(s) ==
    /\ pc[s] = "loop"
    /\ scenario[s] = "flexible"
    /\ year[s] <= years[s]
    /\ LoopIteration(s, flexible_bill(utility[s], datacenter[s],
                                      baseline[s], year[s]))

dispatchable_year(s) ==
    /\ pc[s] = "loop"
    /\ scenario[s] = "dispatchable"
    /\ year[s] <= years[s]
    /\ LoopIteration(s, dispatchable_bill(utility[s], datacenter[s],
                                          baseline[s], year[s]))

\* The dict the running generator returns after its loop.
LoopResult(s) ==
    [raised |-> FALSE,
     years |-> years_list[s],
     monthly_bills |-> monthly_bills[s],
     scenario |-> scenario[s]]

\* A generator called on its own returns its trajectory.
Return_generator(s) ==
    /\ pc[s] = "loop"
    /\ year[s] > years[s]
    /\ fn[s] # "generate_all_trajectories"
    /\ Finish(s, LoopResult(s))

NextScenario(scen) ==
    CASE scen = "unoptimized" -> "flexible"
      [] scen = "flexible" -> "dispatchable"
      [] OTHER -> "none"

\* Inside generate_all_trajectories: the finished generator's trajectory
\* goes into the result dict and the next generator starts.
Next_generator(s) ==
    /\ pc[s] = "loop"
    /\ year[s] > years[s]
    /\ fn[s] = "generate_all_trajectories"
    /\ scenario[s] # "dispatchable"
    /\ done' = [done EXCEPT ![s] = @ @@ (scenario[s] :> LoopResult(s))]
    /\ EnterGenerator(s, NextScenario(scenario[s]), years[s])
    /\ UNCHANGED <<tables, fn, utility, datacenter, years, args, trajs, ret, prev>>

\* generate_all_trajectories returns the dict of the four trajectories.
Return_generate_all(s) ==
    /\ pc[s] = "loop"
    /\ year[s] > years[s]
    /\ fn[s] = "generate_all_trajectories"
    /\ scenario[s] = "dispatchable"
    /\ Finish(s, [raised |-> FALSE,
                  trajectories |-> done[s] @@ ("dispatchable" :> LoopResult(s))])

\* ------------------------------------------------------------------------
\* Specifications
\* ------------------------------------------------------------------------
Engine(s) ==
    \/ Run_residential_allocation(s)
    \/ Run_dc_revenue_offset(s)
    \/ Run_net_residential_impact(s)
    \/ Run_baseline_trajectory(s)
    \/ Run_summary_stats(s)
    \/ Begin_generator(s)
    \/ Begin_generate_all(s)
    \/ unoptimized_year(s)
    \/ flexible_year(s)
    \/ dispatchable_year(s)
    \/ Return_generator(s)
    \/ Next_generator(s)
    \/ Return_generate_all(s)

\* One session: every core function with every argument in the sets above.
Next ==
    \/ RequestAllocation(1) /\ UNCHANGED <<pagevars, scriptvars>>
    \/ RequestRevenueOffset(1) /\ UNCHANGED <<pagevars, scriptvars>>
    \/ RequestNetImpact(1) /\ UNCHANGED <<pagevars, scriptvars>>
    \/ RequestTrajectory(1, Utilities, DataCenters, MaxYears) /\ UNCHANGED <<pagevars, scriptvars>>
    \/ RequestSummary(1) /\ UNCHANGED <<pagevars, scriptvars>>
    \/ Summarise(1) /\ UNCHANGED <<pagevars, scriptvars>>
    \/ Again(1) /\ UNCHANGED <<pagevars, scriptvars>>
    \/ Reset(1) /\ UNCHANGED <<pagevars, scriptvars>>
    \/ Engine(1) /\ UNCHANGED <<pagevars, scriptvars>>

Spec == Init /\ [][Next]_vars

\* Two sessions running trajectory functions at the same time.
NextConc ==
    \E s \in Sessions :
        \/ RequestTrajectory(s, {DEFAULT_UTILITY, SMALL_UTILITY},
                             {DEFAULT_DATA_CENTER}, MaxYearsConc)
           /\ UNCHANGED <<pagevars, scriptvars>>
        \/ Reset(s) /\ UNCHANGED <<pagevars, scriptvars>>
        \/ Begin_generator(s) /\ UNCHANGED <<pagevars, scriptvars>>
        \/ Begin_generate_all(s) /\ UNCHANGED <<pagevars, scriptvars>>
        \/ Run_baseline_trajectory(s) /\ UNCHANGED <<pagevars, scriptvars>>
        \/ unoptimized_year(s) /\ UNCHANGED <<pagevars, scriptvars>>
        \/ flexible_year(s) /\ UNCHANGED <<pagevars, scriptvars>>
        \/ dispatchable_year(s) /\ UNCHANGED <<pagevars, scriptvars>>
        \/ Return_generator(s) /\ UNCHANGED <<pagevars, scriptvars>>
        \/ Next_generator(s) /\ UNCHANGED <<pagevars, scriptvars>>
        \/ Return_generate_all(s) /\ UNCHANGED <<pagevars, scriptvars>>

SpecConc == Init /\ [][NextConc]_vars

\* ------------------------------------------------------------------------
\* THE DASHBOARD: app.py and pages/1_Calculator.py
\* ------------------------------------------------------------------------
\* Streamlit runs a page's script from top to bottom once per user
\* interaction.  In that run the widget the user touched returns the value
\* the user gave it and every other widget returns its 'value' argument.
\* Both pages keep their inputs in st.session_state, which the pages of one
\* browser session share.  An input names the widget touched and its value.
NoInput == [widget |-> "none", value |-> 0]

\* The values a slider offers: min_value, min_value + step, ...
SliderValues(min_value, max_value, step) ==
    {v \in min_value..max_value : (v - min_value) % step = 0}

\* st.slider(label, min_value, max_value, value, step): a default outside
\* the range is a StreamlitAPIException.
Slider(label, min_value, max_value, value, step, input) ==
    IF value < min_value \/ value > max_value
    THEN Raised("StreamlitAPIException")
    ELSE [raised |-> FALSE,
          value |-> IF input.widget = label THEN input.value ELSE value]

\* int(dc_capacity * ratio) with ratio = onsite_generation_mw / capacity_mw.
\* Both operations round to a double: when dc_capacity * onsite / capacity
\* is a whole number the product can fall just below it and int() then
\* yields one less (int(3000 * (9 / 500)) is 53); otherwise the product is
\* at least 1 / capacity_mw away from a whole number and int() is the floor.
RescaledOnsite(dc_capacity, onsite_generation_mw, capacity_mw) ==
    LET exact == dc_capacity * onsite_generation_mw
    IN  IF exact % capacity_mw = 0 /\ exact > 0
        THEN {exact \div capacity_mw - 1, exact \div capacity_mw}
        ELSE {exact \div capacity_mw}

\* "Onsite Generation (MW)" of the Calculator and the caption under it.
Calculator_OnsiteSlider(d, input) ==
    LET max_gen == d.capacity_mw
        gen == Slider("onsite_generation_mw", 0, max_gen,
                      d.onsite_generation_mw, Max(10, max_gen \div 100), input)
    IN  IF gen.raised THEN gen
        ELSE IF d.capacity_mw = 0 THEN Raised("ZeroDivisionError")
        ELSE [raised |-> FALSE,
              datacenter |-> [d EXCEPT !.onsite_generation_mw = gen.value]]

\* The "Data Center" section of the Calculator: the outcomes of one run.
Calculator_DataCenterSection(d, input) ==
    LET dc_capacity == Slider("capacity_mw", 500, 10000, d.capacity_mw, 100, input)
        firm == Slider("firm_load_factor", 6000, 9000, d.firm_load_factor, 500, input)
        flex == Slider("flex_load_factor", 8500, 9800, d.flex_load_factor, 100, input)
        coincidence == Slider("flex_peak_coincidence", 6000, 9500,
                              d.flex_peak_coincidence, 500, input)
    IN  IF dc_capacity.raised THEN {dc_capacity}
        ELSE IF dc_capacity.value # d.capacity_mw /\ d.capacity_mw = 0
        THEN {Raised("ZeroDivisionError")}
        ELSE IF firm.raised THEN {firm}
        ELSE IF flex.raised THEN {flex}
        ELSE IF coincidence.raised THEN {coincidence}
        ELSE LET onsite == IF dc_capacity.value # d.capacity_mw
                           THEN RescaledOnsite(dc_capacity.value,
                                               d.onsite_generation_mw,
                                               d.capacity_mw)
                           ELSE {d.onsite_generation_mw}
             IN  {Calculator_OnsiteSlider(
                      [d EXCEPT !.capacity_mw = dc_capacity.value,
                                !.onsite_generation_mw = o,
                                !.firm_load_factor = firm.value,
                                !.flex_load_factor = flex.value,
                                !.flex_peak_coincidence = coincidence.value],
                      input) : o \in onsite}

\* The three "Quick Presets" buttons of the Calculator.
QUICK_PRESETS ==
    <<[label |-> "Small Utility",
      residential_customers |-> 100000,
      avg_monthly_bill |-> 125 * SCALE,
      system_peak_mw |-> 1500,
      capacity_mw |-> 500,
      onsite_generation_mw |-> 100],
     [label |-> "Large ISO",
      residential_customers |-> 2000000,
      avg_monthly_bill |-> 150 * SCALE,
      system_peak_mw |-> 20000,
      capacity_mw |-> 5000,
      onsite_generation_mw |-> 1000],
     [label |-> "High Impact",
      residential_customers |-> 300000,
      avg_monthly_bill |-> 135 * SCALE,
      system_peak_mw |-> 3000,
      capacity_mw |-> 3000,
      onsite_generation_mw |-> 600]>>

\* The session state both pages write on first use and on reset.
DefaultSession ==
    [utility |-> DEFAULT_UTILITY,
     datacenter |-> DEFAULT_DATA_CENTER,
     projection_years |-> TIME_PARAMS.projection_years]

\* A script run ended in st.rerun(), in an exception, or at the engine.
Outcome(ss, how) == [session_state |-> ss, run |-> how]

\* main() of pages/1_Calculator.py up to the engine call: the section the
\* radio shows, then the reset button, then the presets.
Calculator_main(ss, sec, input) ==
    LET sections ==
            IF sec = "Data Center"
            THEN {IF o.raised THEN Outcome(ss, "error")
                  ELSE Outcome([ss EXCEPT !.datacenter = o.datacenter], "engine") :
                      o \in Calculator_DataCenterSection(ss.datacenter, input)}
            ELSE IF sec = "Projection"
            THEN LET y == Slider("projection_years", 5, 30,
                                 ss.projection_years, 5, input)
                 IN  {IF y.raised THEN Outcome(ss, "error")
                      ELSE Outcome([ss EXCEPT !.projection_years = y.value],
                                   "engine")}
            ELSE {Outcome(ss, "engine")}
        Buttons(o) ==
            IF o.run = "error" THEN o
            ELSE IF input.widget = "reset" THEN Outcome(DefaultSession, "rerun")
            ELSE IF input.widget = "preset"
            THEN LET p == QUICK_PRESETS[input.value]
                 IN  Outcome(
                       [o.session_state EXCEPT
                          !.utility.residential_customers = p.residential_customers,
                          !.utility.avg_monthly_bill = p.avg_monthly_bill,
                          !.utility.system_peak_mw = p.system_peak_mw,
                          !.datacenter.capacity_mw = p.capacity_mw,
                          !.datacenter.onsite_generation_mw = p.onsite_generation_mw],
                       "rerun")
            ELSE o
    IN  {Buttons(o) : o \in sections}

\* The sidebar of app.py up to the engine calls.
App_sidebar(ss, input) ==
    LET capacity == Slider("capacity_mw", 500, 10000,
                           ss.datacenter.capacity_mw, 100, input)
        max_onsite == capacity.value
        default_onsite == Min(ss.datacenter.onsite_generation_mw, max_onsite)
        onsite == Slider("onsite_generation_mw", 0, max_onsite, default_onsite,
                         Max(10, max_onsite \div 100), input)
        y == Slider("projection_years", 5, 25, ss.projection_years, 1, input)
    IN  IF capacity.raised \/ onsite.raised \/ y.raised
        THEN {Outcome(ss, "error")}
        ELSE IF input.widget = "reset" THEN {Outcome(DefaultSession, "rerun")}
        ELSE {Outcome([ss EXCEPT !.datacenter.capacity_mw = capacity.value,
                                 !.datacenter.onsite_generation_mw = onsite.value,
                                 !.projection_years = y.value],
                      "engine")}

\* One run of the script of page p.
ScriptRun(p, ss, sec, input) ==
    IF p = "app" THEN App_sidebar(ss, input) ELSE Calculator_main(ss, sec, input)

\* The slider positions the user moves a slider to (position k is
\* min_value + k * step).
CapacityPositions == {0, 2, 5, 25}
OnsitePositions == {0, 1, 20, 100}
ProjectionPositions == {0}

Pick(min_value, max_value, step, positions) ==
    {min_value + k * step : k \in positions} \cap SliderValues(min_value, max_value, step)

\* What the user can do on page p while the session shows state ss.
Inputs(p, ss, sec) ==
    LET at(w, vs) == {[widget |-> w, value |-> v] : v \in vs}
        cap == ss.datacenter.capacity_mw
        dc == at("capacity_mw", Pick(500, 10000, 100, CapacityPositions))
              \cup at("onsite_generation_mw",
                      Pick(0, cap, Max(10, cap \div 100), OnsitePositions))
    IN  IF p = "app"
        THEN dc \cup at("projection_years", Pick(5, 25, 1, ProjectionPositions))
                \cup at("reset", {0})
        ELSE (IF sec = "Data Center" THEN dc
              ELSE IF sec = "Projection"
              THEN at("projection_years", Pick(5, 30, 5, ProjectionPositions))
              ELSE {})
             \cup at("reset", {0})
             \cup at("preset", 1..Len(QUICK_PRESETS))

\* The session's script runs and reaches the outcome o.
Ran(o) ==
    /\ session_state' = o.session_state
    /\ run' = o.run
    /\ engine_args' = [invoked |-> FALSE]
    /\ UNCHANGED <<page, section>>

\* The user touches a widget of the page shown.
Interact ==
    /\ run = "waiting"
    /\ interactions < MaxInteractions
    /\ interactions' = interactions + 1
    /\ \E input \in Inputs(page, session_state, section) :
           \E o \in ScriptRun(page, session_state, section, input) : Ran(o)

\* st.rerun(): the script starts again with no widget touched.  The first
\* run of a session and the run after a navigation are the same.
Rerun ==
    /\ run = "rerun"
    /\ \E o \in ScriptRun(page, session_state, section, NoInput) : Ran(o)
    /\ UNCHANGED interactions

\* The user opens the other page.
Navigate ==
    /\ run = "waiting"
    /\ page' = IF page = "app" THEN "calculator" ELSE "app"
    /\ run' = "rerun"
    /\ engine_args' = [invoked |-> FALSE]
    /\ UNCHANGED <<session_state, section, interactions>>

\* The user picks a section of the Calculator's "Configuration" radio.
SelectSection ==
    /\ run = "waiting"
    /\ page = "calculator"
    /\ \E sec \in {"Your Utility", "Data Center", "Projection"} \ {section} :
           section' = sec
    /\ run' = "rerun"
    /\ engine_args' = [invoked |-> FALSE]
    /\ UNCHANGED <<session_state, page, interactions>>

\* The end of a run: app.py calls the four trajectory functions and the
\* Calculator generate_all_trajectories, with the session's own dicts.
InvokeEngine ==
    /\ run = "engine"
    /\ engine_args' = [invoked |-> TRUE,
                       utility |-> session_state.utility,
                       datacenter |-> session_state.datacenter,
                       years |-> session_state.projection_years]
    /\ run' = "waiting"
    /\ UNCHANGED <<session_state, page, section, interactions>>

NextDashboard ==
    \/ Interact /\ UNCHANGED <<enginevars, scriptvars>>
    \/ Rerun /\ UNCHANGED <<enginevars, scriptvars>>
    \/ Navigate /\ UNCHANGED <<enginevars, scriptvars>>
    \/ SelectSection /\ UNCHANGED <<enginevars, scriptvars>>
    \/ InvokeEngine /\ UNCHANGED <<enginevars, scriptvars>>

SpecDashboard == Init /\ [][NextDashboard]_vars

\* ------------------------------------------------------------------------
\* ENERGY VIEW: generate_peak_day_profile of pages/2_Energy_View.py
\* ------------------------------------------------------------------------
\* Power on this page is in units of 1/SCALE MW, so that the products of a
\* whole number of MW and a fraction are exact.
hourly_shape ==
    <<6200, 5800, 5500, 5300, 5200, 5400,
      6000, 6800, 7600, 8400, 9000, 9400,
      9700, 9900, 10000, 10000, 9900, 9600,
      9000, 8200, 7500, 7000, 6600, 6400>>

\* The label of an hour: '12 AM', '1 AM', ..., '12 PM', '1 PM', ...
HourLabel(hour) ==
    IF hour = 0 THEN <<12, "AM">>
    ELSE IF hour < 12 THEN <<hour, "AM">>
    ELSE IF hour = 12 THEN <<12, "PM">>
    ELSE <<hour - 12, "PM">>

\* The data center is served all it wants, whatever the headroom.
DcActuallyServed_Unlimited(dc_max_wants, headroom_for_dc) ==
    dc_max_wants

DcActuallyServed(dc_max_wants, headroom_for_dc) ==
    Min(dc_max_wants, headroom_for_dc)

\* The list of 24 dicts the function returns (index h is hour h - 1).
generate_peak_day_profile(system_peak_mw, dc_capacity_mw, firm_load_factor, flex_load_factor) ==
    LET dc_max_wants == dc_capacity_mw * flex_load_factor
        dc_firm_baseline == dc_capacity_mw * firm_load_factor
        grid_capacity == system_peak_mw * SCALE + dc_firm_baseline
    IN  [h \in 1..Len(hourly_shape) |->
            LET base_grid == system_peak_mw * hourly_shape[h]
                headroom_for_dc == Max(0, grid_capacity - base_grid)
                dc_actually_served == DcActuallyServed(dc_max_wants, headroom_for_dc)
                shifted_workload == Max(0, dc_max_wants - headroom_for_dc)
                firm_dc == Min(dc_firm_baseline, dc_actually_served)
                flex_bonus == Max(0, dc_actually_served - dc_firm_baseline)
            IN  [hour |-> h - 1,
                 hour_label |-> HourLabel(h - 1),
                 base_grid |-> base_grid,
                 firm_dc |-> firm_dc,
                 flex_bonus |-> flex_bonus,
                 shifted_workload |-> shifted_workload,
                 grid_capacity |-> grid_capacity,
                 dc_actually_served |-> dc_actually_served,
                 dc_max_wants |-> dc_max_wants]]

\* The arguments a caller passes: the session's values and others, some of
\* them negative.
ProfilePeaks == {0 - 1000, 0, 1500, 4000, 20000}
ProfileCapacities == {0 - 500, 0, 500, 1000, 10000}
ProfileFirmFactors == {0 - 1000, 0, 6000, 8000, 10000}
ProfileFlexFactors == {0, 8000, 9500, 12000}

\* A caller calls generate_peak_day_profile.
Call_generate_peak_day_profile ==
    /\ script_call.fn = "none"
    /\ \E system_peak_mw \in ProfilePeaks, dc_capacity_mw \in ProfileCapacities,
          firm_load_factor \in ProfileFirmFactors,
          flex_load_factor \in ProfileFlexFactors :
           script_call' =
               [fn |-> "generate_peak_day_profile",
                args |-> [system_peak_mw |-> system_peak_mw,
                          dc_capacity_mw |-> dc_capacity_mw,
                          firm_load_factor |-> firm_load_factor,
                          flex_load_factor |-> flex_load_factor],
                ret |-> generate_peak_day_profile(system_peak_mw, dc_capacity_mw,
                                                  firm_load_factor, flex_load_factor)]
    /\ UNCHANGED downloadvars

\* ------------------------------------------------------------------------
\* TARIFF MIGRATION: calculate_protection_score of
\* scripts/migrate_tariff_excel_to_ts.py
\* ------------------------------------------------------------------------
\* A spreadsheet cell: empty (NaN), a number (in tenths), a string, a bool.
NaN == [kind |-> "nan", num |-> 0, str |-> "", bool |-> FALSE]
Num(n) == [kind |-> "num", num |-> n, str |-> "", bool |-> FALSE]
Str(s) == [kind |-> "str", num |-> 0, str |-> s, bool |-> FALSE]
Bool(b) == [kind |-> "bool", num |-> 0, str |-> "", bool |-> b]

\* float(text) for the strings of the model: the number in tenths, or a
\* ValueError.
ParseFloat(text) ==
    CASE text = "90" -> [raised |-> FALSE, value |-> 900]
      [] text = "15" -> [raised |-> FALSE, value |-> 150]
      [] text = "1" -> [raised |-> FALSE, value |-> 10]
      [] OTHER -> Raised("ValueError")

\* str.lower() for the strings of the model.
Lower(text) ==
    CASE text = "Yes" -> "yes"
      [] text = "YES" -> "yes"
      [] text = "Y" -> "y"
      [] text = "No" -> "no"
      [] text = "N/A" -> "n/a"
      [] OTHER -> text

\* safe_float(val, default): tenths.
safe_float(val, default) ==
    CASE val.kind = "nan" -> default
      [] val.kind = "num" -> val.num
      [] val.kind = "bool" -> IF val.bool THEN 10 ELSE 0
      [] OTHER -> LET f == ParseFloat(val.str)
                  IN  IF f.raised THEN default ELSE f.value

\* safe_int(val, default): int(float(val)) truncates towards zero.
safe_int(val, default) ==
    LET trunc(t) == IF t >= 0 THEN t \div 10 ELSE 0 - ((0 - t) \div 10)
    IN  CASE val.kind = "nan" -> default
          [] val.kind = "num" -> trunc(val.num)
          [] val.kind = "bool" -> IF val.bool THEN 1 ELSE 0
          [] OTHER -> LET f == ParseFloat(val.str)
                      IN  IF f.raised THEN default ELSE trunc(f.value)

safe_bool(val) ==
    CASE val.kind = "nan" -> FALSE
      [] val.kind = "bool" -> val.bool
      [] val.kind = "str" -> Lower(val.str) \in {"yes", "true", "1", "y"}
      [] OTHER -> val.num # 0

\* row.get(key, default)
Get(row, key, default) == IF key \in DOMAIN row THEN row[key] ELSE default

\* The points of a tier ladder: 3 from high, 2 from mid, 1 from low.
Tier(x, high, mid, low) ==
    IF x >= high THEN 3 ELSE IF x >= mid THEN 2 ELSE IF x >= low THEN 1 ELSE 0

calculate_protection_score(row) ==
    LET ratchet_pct == safe_float(Get(row, "Ratchet %", Num(0)), 0)
        term_years == safe_int(Get(row, "Contract (Yrs)", Num(0)), 0)
        flag(key, points) ==
            IF safe_bool(Get(row, key, Bool(FALSE))) THEN points ELSE 0
        min_load == safe_float(Get(row, "Min Load (MW)", Num(0)), 0)
    IN  0 + Tier(ratchet_pct, 900, 800, 600)
          + Tier(term_years, 15, 10, 5)
          + flag("CIAC", 2)
          + flag("Take-or-Pay", 2)
          + flag("Exit Fee", 2)
          + flag("Demand Ratchet", 1)
          + flag("Credit Req", 1)
          + flag("DC Specific", 2)
          + flag("Collateral", 1)
          + (IF min_load >= 10 THEN 1 ELSE 0)

\* The rows a caller scores.
RatchetCells == {NaN, Num(599), Num(600), Num(899), Num(900), Str("90"), Str("N/A")}
TermCells == {NaN, Num(49), Num(50), Num(149), Num(150), Str("15")}
MinLoadCells == {NaN, Num(9), Num(10)}
FlagCells == {NaN, Str("Yes")}
CiacCells == {NaN, Str("Yes"), Str("No"), Str("Y"), Bool(TRUE), Num(10)}

Rows ==
    {[c \in {"Ratchet %", "Contract (Yrs)", "CIAC", "Take-or-Pay", "Exit Fee",
             "Demand Ratchet", "Credit Req", "DC Specific", "Collateral",
             "Min Load (MW)"} |->
         CASE c = "Ratchet %" -> ratchet
           [] c = "Contract (Yrs)" -> term
           [] c = "CIAC" -> ciac
           [] c = "Min Load (MW)" -> min_load
           [] OTHER -> flags[c]] :
        ratchet \in RatchetCells, term \in TermCells, ciac \in CiacCells,
        min_load \in MinLoadCells,
        flags \in [{"Take-or-Pay", "Exit Fee", "Demand Ratchet", "Credit Req",
                    "DC Specific", "Collateral"} -> FlagCells]}

\* row_to_tariff scores a row of the spreadsheet.
Call_calculate_protection_score ==
    /\ script_call.fn = "none"
    /\ \E row \in Rows :
           script_call' = [fn |-> "calculate_protection_score",
                           args |-> [row |-> row],
                           ret |-> calculate_protection_score(row)]
    /\ UNCHANGED downloadvars

\* The caller is done with the value returned and drops it.
Drop_script_call ==
    /\ script_call.fn # "none"
    /\ script_call' = [fn |-> "none"]
    /\ UNCHANGED downloadvars

NextScripts ==
    \/ Call_generate_peak_day_profile /\ UNCHANGED <<enginevars, pagevars>>
    \/ Call_calculate_protection_score /\ UNCHANGED <<enginevars, pagevars>>
    \/ Drop_script_call /\ UNCHANGED <<enginevars, pagevars>>

SpecScripts == Init /\ [][NextScripts]_vars

\* ------------------------------------------------------------------------
\* TERRITORY DOWNLOAD: main() of scripts/download_hifld_territories.py
\* ------------------------------------------------------------------------
\* resultRecordCount of every query.
limit == 1000

\* The page sizes the service answers with: none, a short page, a full one.
PageSizes == {0, 1, limit - 1, limit}

\* Where main() goes on when the paging of a batch restarts the query.
AfterBreak_Retry(batch) ==
    [download_pc |-> "paging", batch_idx |-> batch]

\* 'break' leaves the while loop: the for loop takes the next where clause,
\* or ends after the last one.
AfterBreak(batch) ==
    IF batch + 1 < MaxBatches
    THEN [download_pc |-> "paging", batch_idx |-> batch + 1]
    ELSE [download_pc |-> "processing", batch_idx |-> batch]

\* build_where_clauses, then the first where clause with offset 0.
Download_start ==
    /\ download_pc = "start"
    /\ download_pc' = IF MaxBatches > 0 THEN "paging" ELSE "processing"
    /\ batch_idx' = 0
    /\ offset' = 0
    /\ UNCHANGED <<all_features, requests, script_call>>

\* query_hifld is called with the current where clause and offset, and
\* gives n features or raises.
Queried(n, raises) ==
    requests' = Append(requests, [batch |-> batch_idx, offset |-> offset,
                                  n |-> n, error |-> raises])

\* The loop position after a break.
Break ==
    /\ download_pc' = AfterBreak(batch_idx).download_pc
    /\ batch_idx' = AfterBreak(batch_idx).batch_idx
    /\ offset' = IF AfterBreak(batch_idx).batch_idx = batch_idx THEN offset ELSE 0

\* The query returns a page of n features: an empty page breaks, any other
\* is collected; a short page breaks, a full page moves the offset on.  The
\* service holds at most MaxPages full pages for a where clause.
Query_page ==
    /\ download_pc = "paging"
    /\ \E n \in PageSizes :
          /\ n >= limit => offset < MaxPages * limit
          /\ Queried(n, FALSE)
          /\ IF n = 0
             THEN Break /\ UNCHANGED all_features
             ELSE /\ all_features' =
                        Append(all_features,
                               [batch |-> batch_idx, offset |-> offset, n |-> n])
                  /\ IF n < limit
                     THEN Break
                     ELSE /\ offset' = offset + limit
                          /\ UNCHANGED <<download_pc, batch_idx>>
    /\ UNCHANGED script_call

\* The query raises (URLError, timeout, bad JSON): the except clause breaks.
Query_error ==
    /\ download_pc = "paging"
    /\ Queried(0, TRUE)
    /\ Break
    /\ UNCHANGED <<all_features, script_call>>

\* process_features and the write of the GeoJSON file.
Process_and_write ==
    /\ download_pc = "processing"
    /\ download_pc' = "done"
    /\ UNCHANGED <<batch_idx, offset, all_features, requests, script_call>>

NextDownload ==
    \/ Download_start /\ UNCHANGED <<enginevars, pagevars>>
    \/ Query_page /\ UNCHANGED <<enginevars, pagevars>>
    \/ Query_error /\ UNCHANGED <<enginevars, pagevars>>
    \/ Process_and_write /\ UNCHANGED <<enginevars, pagevars>>

\* The interpreter keeps running the script, and urlopen(url, timeout=120)
\* returns or raises: no step of main() waits for ever.
SpecDownload == Init /\ [][NextDownload]_vars /\ WF_vars(NextDownload)

\* ------------------------------------------------------------------------
\* Properties
\* ------------------------------------------------------------------------
DcFns ==
    {"calculate_unoptimized_trajectory", "calculate_flexible_trajectory",
     "calculate_dispatchable_trajectory"}

\* Session s holds the value its call to function f returned.
Returned(s, f) == pc[s] = "returned" /\ fn[s] = f

\* The data-center trajectories in the value session s holds.
DcTrajectories(s) ==
    IF pc[s] # "returned" THEN {}
    ELSE IF fn[s] \in DcFns THEN {ret[s]}
    ELSE IF fn[s] = "generate_all_trajectories"
    THEN {ret[s].trajectories[sc] : sc \in DcScenarios}
    ELSE {}

\* The baseline trajectories in the value session s holds.
BaselineTrajectories(s) ==
    IF pc[s] # "returned" THEN {}
    ELSE IF fn[s] = "calculate_baseline_trajectory" THEN {ret[s]}
    ELSE IF fn[s] = "generate_all_trajectories"
    THEN {ret[s].trajectories["baseline"]}
    ELSE {}

\* The baseline bills for the utility and horizon of session s.
BaselineOf(s) == calculate_baseline_trajectory(utility[s], years[s]).monthly_bills

\* C1: the allocation fraction returned by calculate_residential_allocation
\* is within [0.15, 0.50] for every input with non-zero denominators,
\* whatever the base allocation and the intermediate shares are.
C1_AllocationBounds ==
    \A s \in Sessions :
        Returned(s, "calculate_residential_allocation")
        => ret[s].allocation >= 1500 /\ ret[s].allocation <= 5000

\* A returned allocation whose demand share is negative and whose blend was
\* raised to the lower bound.
C1_Witness ==
    \E s \in Sessions :
        /\ Returned(s, "calculate_residential_allocation")
        /\ ret[s].demand_share < 0
        /\ ret[s].volumetric_share < 0
        /\ ret[s].allocation = 1500

\* C2: in every data-center trajectory with years >= 1 the bills of year 0
\* and year 1 are the baseline's bills of year 0 and year 1.
C2_NoImpactBeforeYear2 ==
    \A s \in Sessions : \A t \in DcTrajectories(s) :
        years[s] >= 1
        => /\ t.monthly_bills[1] = BaselineOf(s)[1]
           /\ t.monthly_bills[2] = BaselineOf(s)[2]

\* A firm trajectory that leaves the baseline in year 2 and not before.
C2_Witness ==
    \E s \in Sessions :
        /\ Returned(s, "calculate_unoptimized_trajectory")
        /\ years[s] >= 2
        /\ ret[s].monthly_bills[2] = BaselineOf(s)[2]
        /\ ret[s].monthly_bills[3] > BaselineOf(s)[3]

\* The bills of q grow strictly from each year to the next.
StrictlyIncreasing(q) == \A i \in 1..(Len(q) - 1) : q[i + 1] > q[i]

\* C3 as stated: for any utility and years >= 1 the baseline bills are
\* strictly increasing.
C3_Original ==
    \A s \in Sessions : \A t \in BaselineTrajectories(s) :
        years[s] >= 1 => StrictlyIncreasing(t.monthly_bills)

\* C3 amended: for any utility whose average monthly bill is positive (one
\* cent or more) and years >= 1 the baseline bills are strictly increasing.
C3_BaselineMonotone ==
    \A s \in Sessions : \A t \in BaselineTrajectories(s) :
        years[s] >= 1 /\ utility[s].avg_monthly_bill >= SCALE \div 100
        => StrictlyIncreasing(t.monthly_bills)

\* A baseline of three or more years for a one-cent bill, growing each year.
C3_Witness ==
    \E s \in Sessions :
        /\ Returned(s, "calculate_baseline_trajectory")
        /\ years[s] >= 3
        /\ utility[s] = ONE_CENT_BILL
        /\ ret[s].monthly_bills[4] > ret[s].monthly_bills[3]

\* The firm call that goes with the flexible call session s made: the same
\* capacity, customers, allocation, onsite generation and market, firm
\* parameters lf and p, no capacity credit.
FirmImpact(s, lf, p) ==
    calculate_net_residential_impact(
        args[s].dc_capacity_mw, lf, p, args[s].residential_customers,
        args[s].residential_allocation, FALSE, args[s].onsite_gen_mw,
        utility[s])

\* Session s holds the result of a net-impact call with the capacity credit
\* enabled, made with a valid customer count and a profile within its
\* invariants (onsite generation at most the capacity).
FlexibleCallReturned(s) ==
    /\ Returned(s, "calculate_net_residential_impact")
    /\ args[s].include_capacity_credit
    /\ args[s].residential_customers > 0
    /\ args[s].onsite_gen_mw <= args[s].dc_capacity_mw

\* C4 as stated: for any flexible and firm parameters in [0,1], the impact
\* with the flexible parameters and the credit is at most the impact with
\* the firm parameters and no credit.
C4_Original ==
    \A s \in Sessions :
        FlexibleCallReturned(s)
        => \A lf \in LoadFactors, p \in PeakCoincidences :
               ret[s].per_customer_monthly
                   <= FirmImpact(s, lf, p).per_customer_monthly

\* C4 amended: the same, provided the flexible load factor is at least the
\* firm load factor and the flexible peak coincidence at most the firm one.
C4_FlexibleNotWorse ==
    \A s \in Sessions :
        FlexibleCallReturned(s)
        => \A lf \in LoadFactors, p \in PeakCoincidences :
               args[s].load_factor >= lf /\ args[s].peak_coincidence <= p
               => ret[s].per_customer_monthly
                      <= FirmImpact(s, lf, p).per_customer_monthly

\* A flexible call that earned a credit and whose impact is strictly below
\* that of the firm call with a lower load factor and full coincidence.
C4_Witness ==
    \E s \in Sessions :
        /\ FlexibleCallReturned(s)
        /\ ret[s].capacity_credit > 0
        /\ args[s].load_factor = 9500
        /\ args[s].peak_coincidence = 7500
        /\ ret[s].per_customer_monthly
               < FirmImpact(s, 8000, SCALE).per_customer_monthly

\* The per-customer monthly impact of scenario scen "fully ramped, without
\* escalation": the Net Impact Model on the allocation for yearsOnline = 0.
ImpactAtYearsOnline0(scen, u, d) ==
    LET lf == IF scen = "unoptimized" THEN d.firm_load_factor
              ELSE d.flex_load_factor
        p == IF scen = "unoptimized" THEN d.firm_peak_coincidence
             ELSE d.flex_peak_coincidence
        g == IF scen = "dispatchable" THEN d.onsite_generation_mw ELSE 0
        ap == IF scen = "dispatchable"
              THEN Max(0, p - DivF(g, d.capacity_mw))
              ELSE p
        a0 == calculate_residential_allocation(u, d.capacity_mw, lf, ap, 0)
    IN  calculate_net_residential_impact(
            d.capacity_mw, lf, p, u.residential_customers, a0.allocation,
            scen # "unoptimized", g, u).per_customer_monthly

\* C5: in every data-center trajectory with years >= 2, the bill of year 2
\* less the baseline bill of year 2 is one half (0.5 times, in the model's
\* fixed-point product) of the per-customer monthly impact computed on the
\* allocation for yearsOnline = 0, not escalated.
C5_HalfImpactInYear2 ==
    \A s \in Sessions : \A t \in DcTrajectories(s) :
        years[s] >= 2
        => t.monthly_bills[3] - BaselineOf(s)[3]
           = MulF(ImpactAtYearsOnline0(t.scenario, utility[s], datacenter[s]),
                  SCALE \div 2)

\* A dispatchable trajectory whose year-2 impact is a credit, half of a
\* full impact of more than ten cents.
C5_Witness ==
    \E s \in Sessions :
        /\ Returned(s, "calculate_dispatchable_trajectory")
        /\ years[s] >= 2
        /\ ImpactAtYearsOnline0("dispatchable", utility[s], datacenter[s])
               < 0 - 1000
        /\ ret[s].monthly_bills[3] < BaselineOf(s)[3]

\* C6: for trajectories that are all non-empty calculate_summary_stats
\* returns, and for every data-center scenario final_year_bills is the last
\* bill of that trajectory and final_year_difference is that bill less the
\* last bill of the baseline trajectory.
C6_SummaryConsistency ==
    \A s \in Sessions :
        /\ pc[s] \in {"returned", "raised"}
        /\ fn[s] = "calculate_summary_stats"
        /\ \A sc \in Scenarios : Len(trajs[s][sc].monthly_bills) > 0
        => /\ pc[s] = "returned"
           /\ \A sc \in DcScenarios :
                 LET b == trajs[s][sc].monthly_bills
                     b0 == trajs[s]["baseline"].monthly_bills
                 IN  /\ ret[s].final_year_bills[sc] = b[Len(b)]
                     /\ ret[s].final_year_difference[sc] = b[Len(b)] - b0[Len(b0)]

\* A summary of trajectories of different lengths in which the flexible
\* bill ends below the baseline bill.
C6_Witness ==
    \E s \in Sessions :
        /\ Returned(s, "calculate_summary_stats")
        /\ Len(trajs[s]["flexible"].monthly_bills) = 3
        /\ Len(trajs[s]["baseline"].monthly_bills) = 2
        /\ ret[s].final_year_difference["flexible"] = 0 - 11 * SCALE

\* The trajectories, of any scenario, in the value session s holds.
AllTrajectories(s) == DcTrajectories(s) \cup BaselineTrajectories(s)

\* C7: every trajectory a generator returns for a horizon years >= 0 has
\* years + 1 entries in 'years' and in 'monthly_bills', years[i] is
\* base_year + i, and the first bill is the utility's average monthly bill;
\* so the four trajectories of generate_all_trajectories have equal length.
C7_TrajectoryShape ==
    \A s \in Sessions : \A t \in AllTrajectories(s) :
        /\ Len(t.years) = years[s] + 1
        /\ Len(t.monthly_bills) = years[s] + 1
        /\ \A i \in 1..Len(t.years) :
              t.years[i] = TIME_PARAMS.base_year + (i - 1)
        /\ t.monthly_bills[1] = utility[s].avg_monthly_bill

\* generate_all_trajectories returned four trajectories of four entries.
C7_Witness ==
    \E s \in Sessions :
        /\ Returned(s, "generate_all_trajectories")
        /\ years[s] = 3
        /\ \A sc \in Scenarios :
              Len(ret[s].trajectories[sc].monthly_bills) = 4

\* C8: with years < 2 a data-center generator returns, whatever the data
\* center and the utility, and its bills are the baseline's bills at every
\* index.
C8_ShortHorizonIsBaseline ==
    \A s \in Sessions :
        /\ pc[s] \in {"returned", "raised"}
        /\ fn[s] \in DcFns \cup {"generate_all_trajectories"}
        /\ years[s] < 2
        => /\ pc[s] = "returned"
           /\ \A t \in DcTrajectories(s) : t.monthly_bills = BaselineOf(s)

\* The dispatchable generator returned the baseline for one year although
\* the data center has capacity 0 and the utility no residential customer.
C8_Witness ==
    \E s \in Sessions :
        /\ Returned(s, "calculate_dispatchable_trajectory")
        /\ years[s] = 1
        /\ datacenter[s].capacity_mw = 0
        /\ utility[s].residential_customers = 0
        /\ ret[s].monthly_bills = BaselineOf(s)

\* C9: a core function called a second time with identical arguments gives
\* the value (or the exception) the first call gave.
C9_Idempotent ==
    \A s \in Sessions :
        pc[s] \in {"returned", "raised"} /\ prev[s] # NoCall
        => /\ prev[s].fn = fn[s]
           /\ prev[s].utility = utility[s]
           /\ prev[s].datacenter = datacenter[s]
           /\ prev[s].args = args[s]
           /\ prev[s].trajs = trajs[s]
           /\ ret[s] = prev[s].ret

\* The second of two identical generate_all_trajectories calls returned.
C9_Witness ==
    \E s \in Sessions :
        /\ Returned(s, "generate_all_trajectories")
        /\ prev[s] # NoCall
        /\ years[s] >= 3
        /\ ret[s].trajectories["flexible"].monthly_bills[4]
               # ret[s].trajectories["baseline"].monthly_bills[4]

\* The value the call of session s has when nothing else runs.
Alone(s) ==
    IF fn[s] = "calculate_baseline_trajectory"
    THEN calculate_baseline_trajectory(utility[s], years[s])
    ELSE IF fn[s] \in DcFns
    THEN RunGenerator(ScenarioOf(fn[s]), utility[s], datacenter[s], years[s])
    ELSE LET t == [sc \in Scenarios |->
                     IF sc = "baseline"
                     THEN calculate_baseline_trajectory(utility[s], years[s])
                     ELSE RunGenerator(sc, utility[s], datacenter[s], years[s])]
         IN  IF \E sc \in Scenarios : t[sc].raised
             THEN Raised("ZeroDivisionError")
             ELSE [raised |-> FALSE, trajectories |-> t]

\* Whatever the other sessions did meanwhile, a finished trajectory call
\* holds the value it has when run alone.
C10_SameAsAlone ==
    \A s \in Sessions :
        pc[s] \in {"returned", "raised"} /\ fn[s] \in TrajectoryFns
        => ret[s] = Alone(s)

\* No step of a running call changes the constant tables or the arguments
\* of any call in progress.
C10_NoWrite ==
    /\ tables' = tables
    /\ \A s \in Sessions :
          pc[s] \in {"called", "loop"}
          => /\ utility'[s] = utility[s]
             /\ datacenter'[s] = datacenter[s]
             /\ trajs'[s] = trajs[s]
             /\ args'[s] = args[s]

\* C10: no engine function writes to its inputs or to the constant tables,
\* and under any interleaving of two sessions each call returns what it
\* returns when run alone.
C10_ConcurrentCallsIsolated == [](C10_SameAsAlone) /\ [][C10_NoWrite]_vars

\* Session 1 has returned a three-year flexible trajectory while session 2,
\* working on another utility, is in the middle of its loop.
C10_Witness ==
    /\ Returned(1, "calculate_flexible_trajectory")
    /\ years[1] = 2
    /\ pc[2] = "loop"
    /\ year[2] = 2
    /\ utility[2] # utility[1]
    /\ ret[1].monthly_bills[3] # BaselineOf(1)[3]

\* The escalated impact the generator of scenario scen computes for year y.
ScenarioImpact(scen, u, d, y) ==
    CASE scen = "unoptimized" -> unoptimized_impact(u, d, y)
      [] scen = "flexible" -> flexible_impact(u, d, y)
      [] scen = "dispatchable" -> dispatchable_impact(u, d, y)

\* 130 x 1.045^10 in the model's fixed-point arithmetic.
SeedBaselineYear10 == MulF(130 * SCALE, Pow(SCALE + 450, 10))

\* C11: for the seed utility and years = 10 the baseline bill at index 10
\* is 130 x 1.045^10, between 201 and 202 dollars, and each data-center
\* generator holds this same value at index 10 of its local baseline and
\* appends it plus its data-center impact as the bill of year 10.
C11_SeedBaselineYear10 ==
    \A s \in Sessions :
        utility[s] = DEFAULT_UTILITY /\ years[s] = 10
        => /\ \A t \in BaselineTrajectories(s) :
                 /\ t.monthly_bills[11] = SeedBaselineYear10
                 /\ t.monthly_bills[11] >= 201 * SCALE
                 /\ t.monthly_bills[11] <= 202 * SCALE
           /\ scenario[s] \in DcScenarios /\ Len(monthly_bills[s]) >= 11
              => /\ baseline[s].monthly_bills[11] = SeedBaselineYear10
                 /\ monthly_bills[s][11]
                        = SeedBaselineYear10
                          + ScenarioImpact(scenario[s], utility[s],
                                           datacenter[s], 10).dc_impact

\* generate_all_trajectories, called without years for the seed utility and
\* the seed data center, returned a baseline of 130 x 1.045^10 at index 10
\* and three data-center bills that differ from it.
C11_Witness ==
    \E s \in Sessions :
        /\ Returned(s, "generate_all_trajectories")
        /\ args[s].years_is_none
        /\ utility[s] = DEFAULT_UTILITY
        /\ datacenter[s] = DEFAULT_DATA_CENTER
        /\ ret[s].trajectories["baseline"].monthly_bills[11] = SeedBaselineYear10
        /\ \A sc \in DcScenarios :
              ret[s].trajectories[sc].monthly_bills[11] # SeedBaselineYear10

\* The market multiplier as the methodology states it: 0.70 under ERCOT's
\* 4CP, 1 + (price - 100)/1000 capped at 1.15 for a capacity market priced
\* above $100/MW-day, and 1.0 otherwise.
MarketMultiplier(u) ==
    IF u.market_type = "ercot" THEN 7000
    ELSE IF u.has_capacity_market /\ u.capacity_price_2024 > 100
    THEN Min(11500, SCALE + (u.capacity_price_2024 - 100) * 10)
    ELSE SCALE

C13_NetAndPerCustomer ==
    \A s \in Sessions :
        /\ pc[s] \in {"returned", "raised"}
        /\ fn[s] = "calculate_net_residential_impact"
        /\ args[s].residential_customers # 0
        => /\ pc[s] = "returned"
           /\ ret[s].net_impact = ret[s].gross_cost - ret[s].revenue_offset
           /\ ret[s].per_customer_monthly
                  = DivF(MulF(ret[s].net_impact, ret[s].adjusted_allocation),
                         args[s].residential_customers) \div 12

\* A call whose revenue offset exceeds the gross cost returned a negative
\* net impact and a negative monthly impact per customer.
C13_Witness ==
    \E s \in Sessions :
        /\ Returned(s, "calculate_net_residential_impact")
        /\ args[s].residential_customers > 0
        /\ ret[s].revenue_offset > ret[s].gross_cost
        /\ ret[s].net_impact < 0
        /\ ret[s].per_customer_monthly < 0

\* C14: for every call to calculate_dc_revenue_offset, whatever the
\* effective-capacity argument, the returned energy margin is capacity x
\* load factor x 8760 x the energy margin per MWh.
C14_EnergyMarginOnCapacity ==
    \A s \in Sessions :
        Returned(s, "calculate_dc_revenue_offset")
        => ret[s].energy_margin
           = MulF(MulF(args[s].dc_capacity_mw, args[s].load_factor) * 8760,
                  DC_RATE_STRUCTURE.energy_margin_per_mwh)

\* The market-structure fields of the five market presets.
MarketStructures ==
    {[market_type |-> u.market_type,
      has_capacity_market |-> u.has_capacity_market,
      capacity_price_2024 |-> u.capacity_price_2024,
      capacity_cost_pass_through |-> u.capacity_cost_pass_through] :
        u \in {DEFAULT_UTILITY, PJM_UTILITY, ERCOT_UTILITY, MISO_UTILITY,
               SPP_UTILITY}}

\* Utility u with its market-structure fields replaced by those of m.
WithMarket(u, m) ==
    [u EXCEPT !.market_type = m.market_type,
              !.has_capacity_market = m.has_capacity_market,
              !.capacity_price_2024 = m.capacity_price_2024,
              !.capacity_cost_pass_through = m.capacity_cost_pass_through]

\* The allocation call of arguments a for utility u.
AllocationFor(u, a) ==
    calculate_residential_allocation(u, a.dc_capacity_mw, a.load_factor,
                                     a.peak_coincidence, a.years_online)

\* C15 as stated: the result of calculate_residential_allocation depends on
\* the market structure; among the calls made there are two utilities that
\* differ only in their market-structure fields and get different results.
C15_Original ==
    (\E s \in Sessions : Returned(s, "calculate_residential_allocation"))
    => \E u \in AllocUtilities, a \in AllocArgs, m \in MarketStructures :
           AllocationFor(WithMarket(u, m), a) # AllocationFor(u, a)

\* C15 amended: the result of calculate_residential_allocation does not
\* depend on the market structure; a utility that differs from the one
\* passed only in its market-structure fields gets the same result (or the
\* same error).
C15_AllocationIgnoresMarket ==
    \A s \in Sessions :
        /\ pc[s] \in {"returned", "raised"}
        /\ fn[s] = "calculate_residential_allocation"
        => \A m \in MarketStructures :
               AllocationFor(WithMarket(utility[s], m), args[s]) = ret[s]

\* An allocation call for the PJM utility, five or more years online,
\* returned a blended allocation that an ERCOT utility with the same
\* system data gets as well.
C15_Witness ==
    \E s \in Sessions :
        /\ Returned(s, "calculate_residential_allocation")
        /\ utility[s] = PJM_UTILITY
        /\ args[s].years_online >= 5
        /\ args[s].dc_capacity_mw = 1000
        /\ ret[s].allocation # utility[s].base_residential_allocation
        /\ \E m \in MarketStructures :
              /\ m.market_type = "ercot"
              /\ AllocationFor(WithMarket(utility[s], m), args[s]) = ret[s]

\* The three denominators of an allocation call as the claim names them:
\* post-addition system energy, post-addition peak, customer total plus one.
AllocationDenominators(u, a) ==
    LET phase == Min(SCALE, DivF(a.years_online, 3))
    IN  [energy |-> u.pre_dc_system_energy_gwh * 1000
                    + MulF(MulF(a.dc_capacity_mw, a.load_factor) * 8760, phase),
         peak |-> u.system_peak_mw
                  + MulF(MulF(a.dc_capacity_mw, a.peak_coincidence), phase),
         customers |-> u.residential_customers + u.commercial_customers
                       + u.industrial_customers + 1]

\* C16: calculate_residential_allocation returns a complete result when
\* post-addition system energy, post-addition peak and the customer total
\* plus one are all non-zero, and raises a division error, returning
\* nothing, when one of them is zero; all-zero customer counts are no error.
C16_AllocationDivisionErrors ==
    \A s \in Sessions :
        /\ pc[s] \in {"returned", "raised"}
        /\ fn[s] = "calculate_residential_allocation"
        => LET dn == AllocationDenominators(utility[s], args[s])
               u == utility[s]
           IN  /\ dn.energy # 0 /\ dn.peak # 0 /\ dn.customers # 0
                  => /\ pc[s] = "returned"
                     /\ DOMAIN ret[s] = {"raised", "allocation", "volumetric_share",
                                         "demand_share", "customer_share"}
               /\ dn.energy = 0 \/ dn.peak = 0 \/ dn.customers = 0
                  => /\ pc[s] = "raised"
                     /\ ret[s] = Raised("ZeroDivisionError")
               /\ /\ u.residential_customers = 0
                  /\ u.commercial_customers = 0
                  /\ u.industrial_customers = 0
                  /\ dn.energy # 0 /\ dn.peak # 0
                  => pc[s] = "returned" /\ ret[s].customer_share = 0

\* An allocation call for a utility without any customer returned, with a
\* customer share of zero.
C16_Witness ==
    \E s \in Sessions :
        /\ Returned(s, "calculate_residential_allocation")
        /\ utility[s].residential_customers = 0
        /\ utility[s].commercial_customers = 0
        /\ utility[s].industrial_customers = 0
        /\ ret[s].customer_share = 0
        /\ ret[s].allocation >= 1500

\* Session s holds the outcome of a net-impact call.
NetImpactFinished(s) ==
    pc[s] \in {"returned", "raised"} /\ fn[s] = "calculate_net_residential_impact"

\* The keys of a complete net-impact result.
NetImpactKeys ==
    {"raised", "per_customer_monthly", "gross_cost", "revenue_offset",
     "net_impact", "market_type", "adjusted_allocation", "capacity_credit",
     "is_flexible"}

\* C17 as stated: with a zero or negative residential customer count the
\* call never returns a result and ends in a division error; with a
\* positive count it always returns a complete result.
C17_Original ==
    \A s \in Sessions :
        NetImpactFinished(s)
        => /\ args[s].residential_customers <= 0 => pc[s] = "raised"
           /\ args[s].residential_customers > 0
              => pc[s] = "returned" /\ DOMAIN ret[s] = NetImpactKeys

\* C17 amended: with a zero residential customer count the call never
\* returns a result and ends in a division error; with any other count,
\* positive or negative, it returns a complete result.
C17_ZeroCustomersRaise ==
    \A s \in Sessions :
        NetImpactFinished(s)
        => /\ args[s].residential_customers = 0
              => pc[s] = "raised" /\ ret[s] = Raised("ZeroDivisionError")
           /\ args[s].residential_customers # 0
              => pc[s] = "returned" /\ DOMAIN ret[s] = NetImpactKeys

\* A net-impact call with no residential customer ended in the division
\* error.
C17_Witness ==
    \E s \in Sessions :
        /\ NetImpactFinished(s)
        /\ args[s].residential_customers = 0
        /\ args[s].dc_capacity_mw = 1000
        /\ pc[s] = "raised"

\* C18: for each of the four scenarios the summary's cumulative_costs is
\* twelve times the sum of every entry of that scenario's monthly_bills,
\* year 0 included.
C18_CumulativeCosts ==
    \A s \in Sessions :
        Returned(s, "calculate_summary_stats")
        => /\ DOMAIN ret[s].cumulative_costs = Scenarios
           /\ \A sc \in Scenarios :
                 ret[s].cumulative_costs[sc]
                     = 12 * SumSeq(trajs[s][sc].monthly_bills)

\* The summary of four generated trajectories of four or more years: the
\* baseline's cumulative cost counts year 0 and the firm scenario's is
\* higher.
C18_Witness ==
    \E s \in Sessions :
        /\ Returned(s, "calculate_summary_stats")
        /\ years[s] >= 3
        /\ Len(trajs[s]["baseline"].monthly_bills) = years[s] + 1
        /\ trajs[s]["baseline"].monthly_bills[1] = 130 * SCALE
        /\ ret[s].cumulative_costs["baseline"]
               >= 12 * 130 * SCALE * (years[s] + 1)
        /\ ret[s].cumulative_costs["unoptimized"]
               > ret[s].cumulative_costs["baseline"]

\* The gross cost of the call session s made, computed without the
\* capacity credit.
GrossCostWithoutCredit(s) ==
    calculate_net_residential_impact(
        args[s].dc_capacity_mw, args[s].load_factor, args[s].peak_coincidence,
        args[s].residential_customers, args[s].residential_allocation, FALSE,
        args[s].onsite_gen_mw, utility[s]).gross_cost

ImpactAtYearsOnline(scen, u, d, yo) ==
    LET lf == IF scen = "unoptimized" THEN d.firm_load_factor
              ELSE d.flex_load_factor
        p == IF scen = "unoptimized" THEN d.firm_peak_coincidence
             ELSE d.flex_peak_coincidence
        g == IF scen = "dispatchable" THEN d.onsite_generation_mw ELSE 0
        ap == IF scen = "dispatchable"
              THEN Max(0, p - DivF(g, d.capacity_mw))
              ELSE p
        al == calculate_residential_allocation(u, d.capacity_mw, lf, ap, yo)
    IN  calculate_net_residential_impact(
            d.capacity_mw, lf, p, u.residential_customers, al.allocation,
            scen # "unoptimized", g, u).per_customer_monthly

\* The dampening factor d of each scenario.
Dampening(scen) ==
    CASE scen = "unoptimized" -> 8000
      [] scen = "flexible" -> 9000
      [] scen = "dispatchable" -> 9500

\* C20: in every data-center trajectory and every year y >= 2, with
\* yearsOnline = y - 2, the bill is baseline[y] + phaseIn x perCustomerMonthly
\* x (1 + generalInflation)^yearsOnline when the phased impact is positive
\* and baseline[y] + phaseIn x perCustomerMonthly x (1 + generalInflation x
\* d)^yearsOnline otherwise, d being 0.80, 0.90, 0.95 for the firm, flexible
\* and dispatchable scenario; the bill is below the baseline exactly when
\* the per-customer impact is negative.
C20_Escalation ==
    \A s \in Sessions : \A t \in DcTrajectories(s) :
        \A y \in 2..years[s] :
            LET yo == y - 2
                pcm == ImpactAtYearsOnline(t.scenario, utility[s], datacenter[s], yo)
                phased == MulF(pcm, IF y = 2 THEN 5000 ELSE SCALE)
                rate == IF phased > 0
                        THEN TIME_PARAMS.general_inflation
                        ELSE MulF(TIME_PARAMS.general_inflation,
                                  Dampening(t.scenario))
            IN  /\ t.monthly_bills[y + 1]
                       = BaselineOf(s)[y + 1] + MulF(phased, Pow(SCALE + rate, yo))
                /\ t.monthly_bills[y + 1] < BaselineOf(s)[y + 1] <=> pcm < 0

\* A dispatchable trajectory of five or more years whose impact in year 4
\* is a credit of more than ten cents, escalated at the dampened rate, with
\* the bill below the baseline.
C20_Witness ==
    \E s \in Sessions :
        /\ Returned(s, "calculate_dispatchable_trajectory")
        /\ years[s] >= 4
        /\ ImpactAtYearsOnline("dispatchable", utility[s], datacenter[s], 2)
               < 0 - 1000
        /\ ret[s].monthly_bills[5] < BaselineOf(s)[5]
        /\ ret[s].monthly_bills[5]
               # BaselineOf(s)[5]
                 + MulF(ImpactAtYearsOnline("dispatchable", utility[s],
                                            datacenter[s], 2),
                        Pow(SCALE + TIME_PARAMS.general_inflation, 2))

\* The 40/40/20 blend of the three shares a returned allocation reports.
WeightedBlend(r) ==
    MulF(r.volumetric_share, 4000) + MulF(r.demand_share, 4000)
    + MulF(r.customer_share, 2000)

\* x clamped to [0.15, 0.50].
Clamped(x) == IF x < 1500 THEN 1500 ELSE IF x > 5000 THEN 5000 ELSE x

\* C21: with yearsOnline = 0 the allocation returned is the base allocation
\* clamped to [0.15, 0.50], whatever the data-center parameters; with
\* yearsOnline >= 5 it is the 40/40/20 blend clamped to [0.15, 0.50],
\* whatever the base allocation; for 0 < yearsOnline < 5 the unclamped value
\* lies between the base and the blend (to one unit of the fixed-point
\* resolution, lost by rounding the two products down).
C21_RegulatoryLag ==
    \A s \in Sessions :
        Returned(s, "calculate_residential_allocation")
        => LET b == utility[s].base_residential_allocation
               w == WeightedBlend(ret[s])
               yo == args[s].years_online
               x == AdjustedAllocation(b, w, yo)
           IN  /\ yo = 0 => ret[s].allocation = Clamped(b)
               /\ yo >= 5 => ret[s].allocation = Clamped(w)
               /\ yo > 0 /\ yo < 5
                  => /\ x >= Min(b, w) - 1
                     /\ x <= Max(b, w)
                     /\ ret[s].allocation = Clamped(x)

\* An allocation call six years online, for a base allocation of 0.90,
\* returned the blend, which is below 0.50 and needed no clamp.
C21_Witness ==
    \E s \in Sessions :
        /\ Returned(s, "calculate_residential_allocation")
        /\ args[s].years_online = 6
        /\ utility[s].base_residential_allocation = 9000
        /\ ret[s].allocation = WeightedBlend(ret[s])
        /\ ret[s].allocation < 5000
        /\ ret[s].allocation > 1500

\* The effective peak of the call session s made: capacity x peak
\* coincidence - onsite generation.
EffectivePeakOf(s) ==
    MulF(args[s].dc_capacity_mw, args[s].peak_coincidence) - args[s].onsite_gen_mw

\* C22: the effective peak is clamped at zero before costing.  In every
\* market the transmission, distribution and pre-credit capacity cost are
\* >= 0 and add up, less the credit, to gross_cost; when onsite generation
\* is at least capacity x peak coincidence all three are zero, also in the
\* ERCOT 4CP branch, and gross_cost is minus the capacity credit.
C22_EffectivePeakClamped ==
    \A s \in Sessions :
        Returned(s, "calculate_net_residential_impact")
        => LET e == EffectivePeakOf(s)
               t == AnnualizedTransmissionCost(utility[s], e)
               d == AnnualizedDistributionCost(e)
               c == PreCreditCapacityCost(utility[s], e)
           IN  /\ t >= 0 /\ d >= 0 /\ c >= 0
               /\ ret[s].gross_cost = t + d + c - ret[s].capacity_credit
               /\ args[s].onsite_gen_mw
                      >= MulF(args[s].dc_capacity_mw, args[s].peak_coincidence)
                  => /\ t = 0 /\ d = 0 /\ c = 0
                     /\ ret[s].gross_cost = 0 - ret[s].capacity_credit

\* An ERCOT call whose onsite generation exceeds its coincident peak
\* returned a gross cost equal to minus a positive capacity credit.
C22_Witness ==
    \E s \in Sessions :
        /\ Returned(s, "calculate_net_residential_impact")
        /\ utility[s].market_type = "ercot"
        /\ EffectivePeakOf(s) < 0
        /\ args[s].dc_capacity_mw > 0
        /\ ret[s].capacity_credit > 0
        /\ ret[s].gross_cost = 0 - ret[s].capacity_credit

Abs(x) == IF x < 0 THEN 0 - x ELSE x

\* C23: from yearsOnline = 5 on the allocation, and with it the
\* per-customer impact before escalation, no longer depends on yearsOnline;
\* so in every data-center trajectory and every year y >= 7 the impact
\* (bill minus baseline) of year y + 1 is the impact of year y times one
\* constant factor, 1 + generalInflation for a net cost and 1 +
\* generalInflation x d for a net credit: the two impacts are the same
\* per-customer impact times factor^(y - 2) and times factor^(y - 1), and
\* their ratio is the factor up to the rounding of the products.
C23_SteadyState ==
    \A s \in Sessions : \A t \in DcTrajectories(s) :
        \A y \in 7..(years[s] - 1) :
            LET pcm == ImpactAtYearsOnline(t.scenario, utility[s], datacenter[s],
                                           y - 2)
                f == SCALE + (IF pcm > 0
                              THEN TIME_PARAMS.general_inflation
                              ELSE MulF(TIME_PARAMS.general_inflation,
                                        Dampening(t.scenario)))
                i0 == t.monthly_bills[y + 1] - BaselineOf(s)[y + 1]
                i1 == t.monthly_bills[y + 2] - BaselineOf(s)[y + 2]
            IN  /\ ImpactAtYearsOnline(t.scenario, utility[s], datacenter[s],
                                       y - 1) = pcm
                /\ i0 = MulF(pcm, Pow(f, y - 2))
                /\ i1 = MulF(pcm, MulF(Pow(f, y - 2), f))
                /\ Abs(i1 - MulF(i0, f)) <= Abs(pcm) \div SCALE + 2

\* A firm ten-year trajectory whose impact is a cost of more than a dollar
\* that grows from year 8 to year 9.
C23_Witness ==
    \E s \in Sessions :
        /\ Returned(s, "calculate_unoptimized_trajectory")
        /\ years[s] = 10
        /\ ret[s].monthly_bills[9] - BaselineOf(s)[9] > SCALE
        /\ ret[s].monthly_bills[10] - BaselineOf(s)[10]
               > ret[s].monthly_bills[9] - BaselineOf(s)[9]

\* C24: with onsite_generation_mw = 0 and capacity_mw > 0 the dispatchable
\* trajectory has the flexible trajectory's bill in every year whose impact
\* is a net cost; the two differ only in years with yearsOnline >= 1 whose
\* impact is a net credit, through the dampening 0.95 against 0.90 applied
\* to the same phased impact.
C24_DispatchableWithoutOnsite ==
    \A s \in Sessions :
        /\ Returned(s, "generate_all_trajectories")
        /\ datacenter[s].onsite_generation_mw = 0
        /\ datacenter[s].capacity_mw > 0
        => \A y \in 0..years[s] :
               LET fb == ret[s].trajectories["flexible"].monthly_bills[y + 1]
                   db == ret[s].trajectories["dispatchable"].monthly_bills[y + 1]
                   bl == BaselineOf(s)[y + 1]
                   phased == MulF(ImpactAtYearsOnline("flexible", utility[s],
                                                      datacenter[s], y - 2),
                                  IF y = 2 THEN 5000 ELSE SCALE)
                   infl == TIME_PARAMS.general_inflation
               IN  /\ fb > bl => db = fb
                   /\ fb = bl => db = fb
                   /\ db # fb
                      => /\ y - 2 >= 1
                         /\ fb < bl
                         /\ fb = bl + MulF(phased, Pow(SCALE + MulF(infl, 9000), y - 2))
                         /\ db = bl + MulF(phased, Pow(SCALE + MulF(infl, 9500), y - 2))

\* Four trajectories for a data center without onsite generation in which
\* the flexible impact is a credit: equal bills in year 2, different bills
\* in year 3.
C24_Witness ==
    \E s \in Sessions :
        /\ Returned(s, "generate_all_trajectories")
        /\ datacenter[s] = NO_ONSITE
        /\ years[s] >= 3
        /\ ret[s].trajectories["flexible"].monthly_bills[3] < BaselineOf(s)[3]
        /\ ret[s].trajectories["dispatchable"].monthly_bills[3]
               = ret[s].trajectories["flexible"].monthly_bills[3]
        /\ ret[s].trajectories["dispatchable"].monthly_bills[4]
               < ret[s].trajectories["flexible"].monthly_bills[4]

\* The net-impact call session s made, for utility u instead of its own.
NetImpactFor(s, u) ==
    calculate_net_residential_impact(
        args[s].dc_capacity_mw, args[s].load_factor, args[s].peak_coincidence,
        args[s].residential_customers, args[s].residential_allocation,
        args[s].include_capacity_credit, args[s].onsite_gen_mw, u)

\* The numeric output fields of a net-impact result.
NumericFields ==
    {"per_customer_monthly", "gross_cost", "revenue_offset", "net_impact",
     "adjusted_allocation", "capacity_credit"}

\* Market type strings other than 'ercot', one of them unrecognized.
OtherMarketTypes == {"regulated", "pjm", "miso", "spp", "ERCOT"}

\* C25: a market_type other than 'ercot' takes the branches of 'regulated';
\* a call that differs from the one made only in a non-'ercot' market_type
\* returns the same value in every numeric output field, the market
\* effects coming from the capacity-market flag, price and pass-through.
C25_NonErcotTypesAlike ==
    \A s \in Sessions :
        Returned(s, "calculate_net_residential_impact")
            /\ utility[s].market_type # "ercot"
        => \A mt \in OtherMarketTypes :
               LET r == NetImpactFor(s, [utility[s] EXCEPT !.market_type = mt])
               IN  /\ ~r.raised
                   /\ r.market_type = mt
                   /\ \A k \in NumericFields : r[k] = ret[s][k]

\* A call for the PJM utility returned a price-adjusted allocation, and the
\* same utility typed 'spp' gets the same per-customer impact.
C25_Witness ==
    \E s \in Sessions :
        /\ Returned(s, "calculate_net_residential_impact")
        /\ utility[s] = PJM_UTILITY
        /\ ret[s].adjusted_allocation > args[s].residential_allocation
        /\ ret[s].per_customer_monthly # 0
        /\ NetImpactFor(s, [utility[s] EXCEPT !.market_type = "spp"])
               .per_customer_monthly = ret[s].per_customer_monthly

\* Capacity prices and pass-through fractions an ERCOT dict may carry.
CapacityPrices == {0, 30, 100, 150, 270}

PassThroughs == {2500, 4000, 5000}

OnsiteWithinCapacity ==
    engine_args.invoked =>
        engine_args.datacenter.onsite_generation_mw
            <= engine_args.datacenter.capacity_mw

\* A script run in which a capacity slider gave a new capacity: the run went
\* on to the engine (a preset or a reset ends in st.rerun() instead).
CapacitySliderMoved ==
    /\ run = "waiting"
    /\ run' = "engine"
    /\ session_state'.datacenter.capacity_mw # session_state.datacenter.capacity_mw

\* onsite' is new capacity * (onsite / capacity) truncated to an integer,
\* give or take the last bit of the floating-point product.
OnsiteRescaled ==
    LET old == session_state.datacenter
        new == session_state'.datacenter
    IN  /\ new.onsite_generation_mw * old.capacity_mw
             <= new.capacity_mw * old.onsite_generation_mw
        /\ new.capacity_mw * old.onsite_generation_mw
             <= (new.onsite_generation_mw + 1) * old.capacity_mw

\* An onsite slider was moved: the value it gave is at most the capacity.
OnsiteSliderBounded ==
    (run = "waiting" /\ run' = "engine")
        => session_state'.datacenter.onsite_generation_mw
               <= session_state'.datacenter.capacity_mw

\* C27: after any sequence of user actions the engine is invoked with
\* onsite_generation_mw <= capacity_mw; every change of the capacity slider
\* rescales the onsite generation by the previous onsite / capacity ratio,
\* truncated to an integer; the onsite slider gives at most the capacity.
C27_CapacityChangeRescales ==
    [][/\ OnsiteWithinCapacity'
       /\ CapacitySliderMoved => OnsiteRescaled
       /\ OnsiteSliderBounded]_vars

\* The capacity slider of app.py leaves the onsite generation alone, or
\* clamps it to the new capacity.
OnsiteClamped ==
    session_state'.datacenter.onsite_generation_mw
        = Min(session_state.datacenter.onsite_generation_mw,
              session_state'.datacenter.capacity_mw)

\* What both pages do keep: the engine is always invoked with
\* onsite_generation_mw <= capacity_mw and the onsite slider gives at most
\* the capacity; a change of the Calculator's capacity slider rescales the
\* onsite generation by the previous ratio, truncated, and a change of
\* app.py's capacity slider keeps it, clamped to the new capacity.
OnsiteBoundedOnBothPages ==
    [][/\ OnsiteWithinCapacity'
       /\ (CapacitySliderMoved /\ page = "calculator") => OnsiteRescaled
       /\ (CapacitySliderMoved /\ page = "app") => OnsiteClamped
       /\ OnsiteSliderBounded]_vars

\* The engine runs for a capacity the Calculator's slider rescaled.
RescaledOnCalculator ==
    /\ engine_args.invoked
    /\ page = "calculator"
    /\ engine_args.datacenter.capacity_mw = 700
    /\ engine_args.datacenter.onsite_generation_mw = 140

\* ------------------------------------------------------------------------
\* C28: the peak day profile splits the desired load without loss
\* ------------------------------------------------------------------------
ProfileReturned ==
    /\ script_call.fn = "generate_peak_day_profile"
    /\ script_call.args.system_peak_mw >= 0
    /\ script_call.args.dc_capacity_mw >= 0
    /\ script_call.args.firm_load_factor >= 0
    /\ script_call.args.flex_load_factor >= 0

\* C28: for non-negative inputs and each of the 24 hours, served + shifted is
\* the desired load, firm + flex bonus is the served load, and the base grid
\* load plus the served load does not exceed the grid capacity.
C28_PeakDaySplit ==
    ProfileReturned =>
        /\ Len(script_call.ret) = 24
        /\ \A h \in 1..24 :
              LET r == script_call.ret[h]
              IN  /\ r.dc_actually_served + r.shifted_workload = r.dc_max_wants
                  /\ r.firm_dc + r.flex_bonus = r.dc_actually_served
                  /\ r.base_grid + r.dc_actually_served <= r.grid_capacity

\* The default session: at the 3 PM peak 150 MW are shifted, at 4 AM the
\* whole flexible bonus of 150 MW is served.
C28_Witness ==
    /\ ProfileReturned
    /\ script_call.args = [system_peak_mw |-> 4000, dc_capacity_mw |-> 1000,
                           firm_load_factor |-> 8000, flex_load_factor |-> 9500]
    /\ script_call.ret[15].shifted_workload = 150 * SCALE
    /\ script_call.ret[15].flex_bonus = 0
    /\ script_call.ret[5].flex_bonus = 150 * SCALE
    /\ script_call.ret[5].shifted_workload = 0

\* ------------------------------------------------------------------------
\* C29: the range and the maximum of the protection score
\* ------------------------------------------------------------------------
\* A row that meets every criterion at its highest tier.
FullRow(row) ==
    /\ safe_float(row["Ratchet %"], 0) >= 900
    /\ safe_int(row["Contract (Yrs)"], 0) >= 15
    /\ \A c \in {"CIAC", "Take-or-Pay", "Exit Fee", "Demand Ratchet",
                 "Credit Req", "DC Specific", "Collateral"} : safe_bool(row[c])
    /\ safe_float(row["Min Load (MW)"], 0) >= 10

\* C29: the score is an integer between 0 and 19, and a row that meets every
\* criterion at its highest tier scores 19 points.
C29_MaximumIs19 ==
    script_call.fn = "calculate_protection_score" =>
        /\ script_call.ret \in 0..19
        /\ FullRow(script_call.args.row) => script_call.ret = 19

\* What the code computes: the tiers add up to 3 + 3 + 2 + 2 + 2 + 1 + 1 + 2
\* + 1 + 1 = 18, which a full row scores and no row exceeds.
ScoreAtMost18 ==
    script_call.fn = "calculate_protection_score" =>
        /\ script_call.ret \in 0..18
        /\ FullRow(script_call.args.row) <=> script_call.ret = 18

\* ------------------------------------------------------------------------
\* C30: the paging loop of the territory download
\* ------------------------------------------------------------------------
\* A response that ends the paging of its batch.
Stops(r) == r.error \/ r.n < limit

\* The i-th query of the run asks for offset 0, 1000, 2000, ... within its
\* batch.
OffsetsInSteps ==
    \A i \in 1..Len(requests) :
        requests[i].offset =
            limit * Cardinality({j \in 1..(i - 1) :
                                    requests[j].batch = requests[i].batch})

\* A batch is paged until its first stopping response and no further.
StopsAtFirst ==
    \A i \in 1..Len(requests) :
        IF Stops(requests[i])
        THEN \A j \in (i + 1)..Len(requests) :
                 requests[j].batch > requests[i].batch
        ELSE IF i < Len(requests)
        THEN requests[i + 1].batch = requests[i].batch
        ELSE download_pc = "paging" /\ batch_idx = requests[i].batch

\* The features collected are those of every page received, in order: an
\* error drops nothing.
FeaturesKept ==
    all_features =
        SelectSeq([i \in 1..Len(requests) |->
                      [batch |-> requests[i].batch,
                       offset |-> requests[i].offset,
                       n |-> requests[i].n]],
                  LAMBDA p : p.n > 0)

\* Once the loops are over every batch has been queried.
EveryBatchQueried ==
    download_pc \in {"processing", "done"} =>
        \A b \in 0..(MaxBatches - 1) :
            \E i \in 1..Len(requests) : requests[i].batch = b

\* C30: each batch is queried at offsets 0, 1000, 2000, ... up to its first
\* empty page, short page or error; an error ends only its batch, keeping the
\* features collected and leaving the later batches to be queried; and the
\* download comes to an end when every batch gives such a response.
C30_PagingTerminates ==
    /\ [](OffsetsInSteps /\ StopsAtFirst /\ FeaturesKept /\ EveryBatchQueried)
    /\ <>(download_pc = "done")

\* The run is over; the first batch gave a full page and then an error, and
\* the full page and pages of later batches are among the features.
C30_Witness ==
    /\ download_pc = "done"
    /\ Len(requests) >= 2
    /\ requests[1] = [batch |-> 0, offset |-> 0, n |-> limit, error |-> FALSE]
    /\ requests[2] = [batch |-> 0, offset |-> limit, n |-> 0, error |-> TRUE]
    /\ Len(all_features) >= 3
    /\ all_features[1].batch = 0
    /\ all_features[Len(all_features)].batch = MaxBatches - 1

====
